---- MODULE Spec2Model ----
(***************************************************************************)
(* A model of the core of the doc-masking engine (python_backend):         *)
(*   aggregator.py   merge_overlaps, filter_by_policy                      *)
(*   redaction.py    mask_text_spans                                       *)
(*   policy.py       validate_and_normalize_policy,                        *)
(*                   build_text_pseudonymize_fn                            *)
(*   pseudonymizer.py Pseudonymizer                                        *)
(*   processor.py    process_text_file                                     *)
(*                                                                         *)
(* Python values are modelled as follows.  A str is a sequence of          *)
(* one-character strings.  A dict is a function whose DOMAIN is the set of *)
(* keys that are present.  A score 0.8 is the integer 80 (hundredths).  A value *)
(* that is not a dict is the record NotADict.                              *)
(***************************************************************************)
EXTENDS Integers, Sequences, FiniteSets, TLC

VARIABLES
    entities,   \* aggregator: the list held in `entities` (processor.py:85-113)
    before,     \* aggregator: the argument of the last aggregator call
    op,         \* aggregator: the last operation applied to `entities`
    policy,     \* aggregator: the policy given to the last filter_by_policy call
    text,       \* rewriter: mask_text_spans' text argument; detector and pipeline
                \* runs: the text the detectors read
    spans,      \* rewriter: mask_text_spans' entities argument
    preserve_length,  \* rewriter: mask_text_spans' preserve_length argument
    pseudonymize_fn,  \* rewriter: mask_text_spans' pseudonymize_fn argument
    masked,     \* rewriter: the string mask_text_spans returned
    mpc,        \* rewriter: "text"/"spans" until mask_text_spans has returned, then "masked"
    pz,         \* a Pseudonymizer instance: its _config and its _counters
    probe,      \* pseudonymizer runs: the entity_type, template and keep_parts of the calls
    lastcall,   \* the latest pseudonymize call: its arguments, keys and result
    refcall,    \* pseudonymizer runs: an earlier call, kept for comparison
    auto_calls, \* history: per type, pz.pseudonymize calls without index since pz was
                \* constructed or set_document_key was last called
    raw_policy, \* the object given to validate_and_normalize_policy
    norm_policy,\* the policy validate_and_normalize_policy returned
    ppc,        \* policy runs: "raw", then "validated" or "raised", then "replaced",
                \* then "resolved"
    input_file, \* text runs: the input file, [content |-> ...], or NotADict if missing
    policy_arg, \* text runs: process_text_file's policy argument (NotADict: None)
    environ,    \* text runs: os.environ
    result,     \* text runs: what process_text_file returned, with the output file
    raising,    \* text runs: the detector that raised during the call, or "none"
    pdf_lib,    \* PDF runs: how the PDF library behaves during the call
    saved,      \* PDF runs: the document written to the output path
    pseudo_log, \* PDF runs, history: per page, the pseudonymizer of the page (None
                \* without one): its config, its counters before and after the page
    argv,       \* command runs: sys.argv[1:], paths as character sequences
    stdout,     \* command runs: the lines written to standard output
    exit_code,  \* command runs: None while running, then Some(the exit code)
    processor,  \* command runs: the processor main called, "none" without a call
    true_entities, \* evaluation runs: the truth spans given to evaluate_entities
    pred_entities, \* evaluation runs: the predicted spans given to evaluate_entities
    metrics     \* evaluation runs: what evaluate_entities returned

aggVars == <<entities, before, op, policy>>

maskVars == <<text, spans, preserve_length, pseudonymize_fn, masked, mpc>>

pseudoVars == <<pz, probe, lastcall, refcall, auto_calls>>
policyVars == <<raw_policy, norm_policy, ppc>>
pdfVars == <<pdf_lib, saved, pseudo_log>>
cliVars == <<argv, stdout, exit_code, processor>>
evalVars == <<true_entities, pred_entities, metrics>>
textVars == <<input_file, policy_arg, environ, result, raising, pdfVars, cliVars, evalVars>>

vars == <<aggVars, maskVars, pseudoVars, policyVars, textVars>>

(***************************************************************************)
(* Bounds of the model.                                                    *)
(***************************************************************************)
MaxSpans == 3         \* longest span list given to merge_overlaps
MaxEnd == 2           \* largest end offset of a span in the aggregator runs
MaxFilterSpans == 2   \* longest span list given to filter_by_policy
MaxLen == 3           \* longest text given to mask_text_spans
MaxMaskSpans == 2     \* longest span list given to mask_text_spans
MaxCounter == 2       \* a per-type counter of a Pseudonymizer is not driven past this
MaxEvalSpans == 2     \* longest list given to evaluate_entities
MaxPipeSpans == 2      \* longest span list the detectors emit in the pipeline runs
MaxTextLen == 2       \* longest generated text given to process_text_file

Types == {"email", "phone"}
Scores == {50, 90}
ThresholdValues == {70, 90}

Span(t, s, e, sc) == [type |-> t, start |-> s, end |-> e, score |-> sc]

\* Spans as the data model has them: half-open, non-empty, within bounds.
\* E-mail detections come with either score, phone detections with one.
ScoresOf(t) == IF t = "email" THEN Scores ELSE {90}
Spans ==
    UNION {{Span(t, s, e, sc) : s \in 0..MaxEnd, e \in 0..MaxEnd, sc \in ScoresOf(t)} : t \in Types}
SmallSpans == {sp \in Spans : sp.start < sp.end}

NotADict == [py |-> "None"]
IsDict(p) == "py" \notin DOMAIN p

\* dict.get(key, default)
Get(d, key, default) == IF key \in DOMAIN d THEN d[key] ELSE default

Max(a, b) == IF a >= b THEN a ELSE b
Min(a, b) == IF a <= b THEN a ELSE b

SeqToSet(s) == {s[i] : i \in 1..Len(s)}

(***************************************************************************)
(* sorted(list, key=...): Python's sort is stable, so elements with equal  *)
(* keys keep their input order.  KeyLt(a, b) is "key(a) < key(b)".         *)
(***************************************************************************)
\* key(a) < key(b) for the two sort keys the code uses:
\*   "start_negend": key=lambda e: (e["start"], -e["end"])   (aggregator.py:7)
\*   "start":        key=lambda e: e["start"]                (redaction.py:20)
KeyLt(a, b, key) ==
    IF key = "start_negend"
    THEN \/ a.start < b.start
         \/ a.start = b.start /\ a.end > b.end
    ELSE a.start < b.start

RECURSIVE InsertSorted(_, _, _)
InsertSorted(sorted, x, key) ==
    IF sorted = <<>> THEN <<x>>
    ELSE IF KeyLt(x, Head(sorted), key) THEN <<x>> \o sorted
    ELSE <<Head(sorted)>> \o InsertSorted(Tail(sorted), x, key)

RECURSIVE StableSort(_, _)
StableSort(s, key) ==
    IF s = <<>> THEN <<>>
    ELSE InsertSorted(StableSort(SubSeq(s, 1, Len(s) - 1), key), s[Len(s)], key)

\* merge_overlaps with the merge test start < end in place of start <= end
RECURSIVE MergeWalk_StrictOverlap(_, _, _)
MergeWalk_StrictOverlap(rest, current, merged) ==
    IF rest = <<>> THEN Append(merged, current)
    ELSE LET e == Head(rest) IN
         IF e.start < current.end /\ e.type = current.type
         THEN MergeWalk_StrictOverlap(Tail(rest),
                        [current EXCEPT !.end = Max(current.end, e.end),
                                        !.score = Max(current.score, e.score)],
                        merged)
         ELSE MergeWalk_StrictOverlap(Tail(rest), e, Append(merged, current))

\* the loop of merge_overlaps: `current` is the span being grown
RECURSIVE MergeWalk(_, _, _)
MergeWalk(rest, current, merged) ==
    IF rest = <<>> THEN Append(merged, current)
    ELSE LET e == Head(rest) IN
         IF e.start <= current.end /\ e.type = current.type
         THEN MergeWalk(Tail(rest),
                        [current EXCEPT !.end = Max(current.end, e.end),
                                        !.score = Max(current.score, e.score)],
                        merged)
         ELSE MergeWalk(Tail(rest), e, Append(merged, current))

merge_overlaps(ents) ==
    IF ents = <<>> THEN <<>>
    ELSE LET entities_sorted == StableSort(ents, "start_negend")
         IN MergeWalk(Tail(entities_sorted), Head(entities_sorted), <<>>)

\* filter_by_policy dropping a span whose score equals the threshold
RECURSIVE FilterWalk_StrictThreshold(_, _, _)
FilterWalk_StrictThreshold(ents, selected, thresholds) ==
    IF ents = <<>> THEN <<>>
    ELSE LET e == Head(ents)
             rest == FilterWalk_StrictThreshold(Tail(ents), selected, thresholds)
         IN IF e.type \notin selected THEN rest
            ELSE IF e.score > Get(thresholds, e.type, 0) THEN <<e>> \o rest
            ELSE rest

\* filter_by_policy without the threshold test
RECURSIVE FilterWalk_NoThreshold(_, _, _)
FilterWalk_NoThreshold(ents, selected, thresholds) ==
    IF ents = <<>> THEN <<>>
    ELSE LET e == Head(ents)
             rest == FilterWalk_NoThreshold(Tail(ents), selected, thresholds)
         IN IF e.type \notin selected THEN rest ELSE <<e>> \o rest

\* the loop of filter_by_policy
RECURSIVE FilterWalk(_, _, _)
FilterWalk(ents, selected, thresholds) ==
    IF ents = <<>> THEN <<>>
    ELSE LET e == Head(ents)
             rest == FilterWalk(Tail(ents), selected, thresholds)
         IN IF e.type \notin selected THEN rest
            ELSE IF e.score >= Get(thresholds, e.type, 0) THEN <<e>> \o rest
            ELSE rest

filter_by_policy(ents, p) ==
    IF ~IsDict(p) THEN ents
    ELSE LET selected == SeqToSet(Get(p, "entities", <<>>))
         IN IF selected = {} THEN <<>>
            ELSE FilterWalk(ents, selected, Get(p, "thresholds", <<>>))

(***************************************************************************)
(* Inputs of the aggregator runs.                                          *)
(***************************************************************************)
\* Seed scenario 3 (tests/test_aggregator.py:12-16)
Scenario3 == <<Span("email", 5, 10, 80), Span("email", 8, 12, 90), Span("phone", 20, 30, 70)>>

\* Seed scenario 4 (tests/test_aggregator.py:24-28)
Scenario4 == <<Span("email", 0, 5, 50), Span("email", 6, 10, 90), Span("phone", 11, 15, 95)>>
Scenario4Policy == [entities |-> <<"email", "phone">>, thresholds |-> [t \in {"email"} |-> 70]]

EntityLists == {<<>>, <<"email">>, <<"phone">>, <<"email", "phone">>}
ThresholdDicts == UNION {[D -> ThresholdValues] : D \in SUBSET Types}
FilterPolicies ==
    {NotADict}
    \cup {[entities |-> l] : l \in EntityLists}
    \cup {[entities |-> l, thresholds |-> t] : l \in EntityLists, t \in ThresholdDicts}
    \cup {[thresholds |-> t] : t \in ThresholdDicts}
    \cup {Scenario4Policy}

\* the state of a component that takes no part in a specification
MaskIdle ==
    /\ text = <<>>
    /\ spans = <<>>
    /\ preserve_length = TRUE
    /\ pseudonymize_fn = "None"
    /\ masked = <<>>
    /\ mpc = "idle"

AggIdle ==
    /\ entities = <<>>
    /\ before = <<>>
    /\ op = "idle"
    /\ policy = NotADict

NoCall == [called |-> FALSE]

PseudoIdle ==
    /\ pz = [config |-> [env_key |-> "", doc_key |-> "", algo |-> "sha256"],
             counters |-> <<>>]
    /\ probe = <<>>
    /\ lastcall = NoCall
    /\ refcall = NoCall
    /\ auto_calls = <<>>

PolicyIdle ==
    /\ raw_policy = NotADict
    /\ norm_policy = NotADict
    /\ ppc = "idle"

NoResult == [status |-> "none"]

PdfIdle ==
    /\ pdf_lib = NotADict
    /\ saved = NotADict
    /\ pseudo_log = <<>>

CliIdle ==
    /\ argv = <<>>
    /\ stdout = <<>>
    /\ exit_code = <<>>
    /\ processor = "none"

EvalIdle ==
    /\ true_entities = <<>>
    /\ pred_entities = <<>>
    /\ metrics = NotADict

TextIdle ==
    /\ input_file = NotADict
    /\ policy_arg = NotADict
    /\ environ = <<>>
    /\ result = NoResult
    /\ raising = "none"
    /\ PdfIdle
    /\ CliIdle
    /\ EvalIdle

AggInit ==
    /\ entities = <<>>
    /\ before = <<>>
    /\ op = "init"
    /\ policy = NotADict
    /\ MaskIdle
    /\ PseudoIdle
    /\ PolicyIdle
    /\ TextIdle

\* a detector emits one more span (entities.extend(...))
Detect ==
    /\ op \in {"init", "detect"}
    /\ Len(entities) < MaxSpans
    /\ \E sp \in SmallSpans : entities' = Append(entities, sp)
    /\ op' = "detect"
    /\ UNCHANGED <<textVars, before, policy, maskVars, pseudoVars, policyVars>>

\* the detectors emit the spans of seed scenario 3 or 4
DetectScenario ==
    /\ op = "init"
    /\ entities' \in {Scenario3, Scenario4}
    /\ op' = "detect"
    /\ UNCHANGED <<textVars, before, policy, maskVars, pseudoVars, policyVars>>

\* entities = merge_overlaps(entities); op "remerge" is merge_overlaps applied
\* to its own output, merge(merge(x))
MergeOverlaps ==
    /\ op \in {"detect", "merge"}
    /\ before' = entities
    /\ entities' = merge_overlaps(entities)
    /\ op' = IF op = "detect" THEN "merge" ELSE "remerge"
    /\ UNCHANGED <<textVars, policy, maskVars, pseudoVars, policyVars>>

\* entities = filter_by_policy(entities, policy)
FilterByPolicy ==
    /\ op \in {"detect", "merge"}
    /\ Len(entities) <= MaxFilterSpans \/ entities \in {Scenario3, Scenario4}
    /\ \E p \in FilterPolicies :
         /\ policy' = p
         /\ entities' = filter_by_policy(entities, p)
    /\ before' = entities
    /\ op' = "filter"
    /\ UNCHANGED <<textVars, maskVars, pseudoVars, policyVars>>

AggNext == Detect \/ DetectScenario \/ MergeOverlaps \/ FilterByPolicy

SpecAgg == AggInit /\ [][AggNext]_vars

(***************************************************************************)
(* redaction.py: mask_text_spans                                           *)
(***************************************************************************)
\* text[a:b] for 0 <= a, 0 <= b (Python clamps a slice to the string)
Slice(t, a, b) ==
    IF a >= b \/ a >= Len(t) THEN <<>>
    ELSE SubSeq(t, a + 1, Min(b, Len(t)))

\* masking_char * n
RECURSIVE Repeat(_, _)
Repeat(c, n) == IF n <= 0 THEN <<>> ELSE <<c>> \o Repeat(c, n - 1)

\* the characters of an entity type tag
TypeChars(t) ==
    CASE t = "email" -> <<"e", "m", "a", "i", "l">>
      [] t = "phone" -> <<"p", "h", "o", "n", "e">>
      [] t = "person_name" -> <<"p", "e", "r", "s", "o", "n", "_", "n", "a", "m", "e">>
      [] t = "address" -> <<"a", "d", "d", "r", "e", "s", "s">>
      [] t = "postal_code" -> <<"p", "o", "s", "t", "a", "l", "_", "c", "o", "d", "e">>
      [] t = "credentials" -> <<"c", "r", "e", "d", "e", "n", "t", "i", "a", "l", "s">>

\* f"[{e.get('type','MASK')}]"
Bracketed(t) == <<"[">> \o TypeChars(t) \o <<"]">>

\* The hooks of the rewriter runs.  "None": no hook.  "stub": a hook that
\* returns a fixed string per entity type (tests/test_redaction.py:32-33).
\* "raises_on_phone": the same hook, raising for a phone span
\* (tests/test_redaction.py:43-44).
Hooks == {"None", "stub", "raises_on_phone"}
HookRaises(hook, e, original) == hook = "raises_on_phone" /\ e.type = "phone"
HookResult(hook, e, original) ==
    IF e.type = "email" THEN <<"E", "M">> ELSE <<"P">>

\* the replacement with the bracketed type as the only fallback of a raising hook
Replacement_FallbackBracket(e, original, length, masking_char, preserve, hook) ==
    IF hook # "None"
    THEN IF HookRaises(hook, e, original)
         THEN Bracketed(e.type)
         ELSE HookResult(hook, e, original)
    ELSE IF preserve THEN Repeat(masking_char, length) ELSE Bracketed(e.type)

\* the replacement appended for one processed span (redaction.py:31-42)
Replacement(e, original, length, masking_char, preserve, hook) ==
    IF hook # "None"
    THEN IF HookRaises(hook, e, original)
         THEN IF preserve THEN Repeat(masking_char, length) ELSE Bracketed(e.type)
         ELSE HookResult(hook, e, original)
    ELSE IF preserve THEN Repeat(masking_char, length) ELSE Bracketed(e.type)

\* mask_text_spans without the clamp of an overlapping span's start
\* (redaction.py:26-27 left out)
RECURSIVE MaskWalk_NoClamp(_, _, _, _, _, _, _)
MaskWalk_NoClamp(t, rest, last, out, masking_char, preserve, hook) ==
    IF rest = <<>> THEN out \o Slice(t, last, Len(t))
    ELSE LET e == Head(rest)
             s == e.start
             e_end == e.end
         IN IF e_end <= s
            THEN MaskWalk_NoClamp(t, Tail(rest), last, out, masking_char, preserve, hook)
            ELSE MaskWalk_NoClamp(t, Tail(rest), e_end,
                          out \o Slice(t, last, s)
                              \o Replacement(e, Slice(t, s, e_end), e_end - s,
                                             masking_char, preserve, hook),
                          masking_char, preserve, hook)

\* the loop of mask_text_spans; `out` is ''.join(pieces)
RECURSIVE MaskWalk(_, _, _, _, _, _, _)
MaskWalk(t, rest, last, out, masking_char, preserve, hook) ==
    IF rest = <<>> THEN out \o Slice(t, last, Len(t))
    ELSE LET e == Head(rest)
             s == IF e.start < last THEN last ELSE e.start
             e_end == e.end
         IN IF e_end <= s
            THEN MaskWalk(t, Tail(rest), last, out, masking_char, preserve, hook)
            ELSE MaskWalk(t, Tail(rest), e_end,
                          out \o Slice(t, last, s)
                              \o Replacement(e, Slice(t, s, e_end), e_end - s,
                                             masking_char, preserve, hook),
                          masking_char, preserve, hook)

mask_text_spans(t, ents, masking_char, preserve, hook) ==
    IF ents = <<>> THEN t
    ELSE MaskWalk(t, StableSort(ents, "start"), 0, <<>>, masking_char, preserve, hook)

Alphabet == {"a", "x"}
MaskSpan(t, s, e) == [type |-> t, start |-> s, end |-> e]

MaskInit ==
    /\ text = <<>>
    /\ spans = <<>>
    /\ preserve_length = TRUE
    /\ pseudonymize_fn = "None"
    /\ masked = <<>>
    /\ mpc = "text"
    /\ AggIdle
    /\ PseudoIdle
    /\ PolicyIdle
    /\ TextIdle

\* the caller's text grows by one character
TypeChar ==
    /\ mpc = "text"
    /\ Len(text) < MaxLen
    /\ \E c \in Alphabet : text' = Append(text, c)
    /\ UNCHANGED <<textVars, spans, preserve_length, pseudonymize_fn, masked, mpc, aggVars, pseudoVars, policyVars>>

\* the caller adds one in-bounds span to the list
AddSpan ==
    /\ mpc \in {"text", "spans"}
    /\ Len(spans) < MaxMaskSpans
    /\ \E t \in Types, s \in 0..Len(text), e \in 0..Len(text) :
         /\ s < e
         /\ spans' = Append(spans, MaskSpan(t, s, e))
    /\ mpc' = "spans"
    /\ UNCHANGED <<textVars, text, preserve_length, pseudonymize_fn, masked, aggVars, pseudoVars, policyVars>>

\* masked = mask_text_spans(text, spans, 'x', preserve_length, pseudonymize_fn=...)
MaskTextSpans ==
    /\ mpc \in {"text", "spans"}
    /\ \E pl \in BOOLEAN, hook \in Hooks :
         /\ preserve_length' = pl
         /\ pseudonymize_fn' = hook
         /\ masked' = mask_text_spans(text, spans, "x", pl, hook)
    /\ mpc' = "masked"
    /\ UNCHANGED <<textVars, text, spans, aggVars, pseudoVars, policyVars>>

MaskNext == TypeChar \/ AddSpan \/ MaskTextSpans

SpecMask == MaskInit /\ [][MaskNext]_vars

(***************************************************************************)
(* Pipeline runs (processor.py:112-114): the detectors emit spans over a   *)
(* text, each with the verbatim slice as its text field; then either       *)
(* merge_overlaps is applied to them, or the whole pipeline:               *)
(* merge_overlaps, filter_by_policy under the policy of the run,           *)
(* mask_text_spans.                                                        *)
(***************************************************************************)
PipeText == <<"a", "b", "c">>
PipeSpans ==
    {[type |-> t, start |-> s, end |-> e, score |-> sc, text |-> Slice(PipeText, s, e)] :
        t \in Types, s \in 0..Len(PipeText), e \in 0..Len(PipeText), sc \in Scores}
PipePolicies ==
    {[entities |-> <<"email", "phone">>, thresholds |-> [email |-> 70]],
     [entities |-> <<"email">>],
     [entities |-> <<"phone">>, thresholds |-> [email |-> 70, phone |-> 90]]}

PipeInit ==
    /\ text = PipeText
    /\ policy \in PipePolicies
    /\ entities = <<>>
    /\ before = <<>>
    /\ op = "init"
    /\ spans = <<>>
    /\ preserve_length = TRUE
    /\ pseudonymize_fn = "None"
    /\ masked = <<>>
    /\ mpc = "idle"
    /\ PseudoIdle
    /\ PolicyIdle
    /\ TextIdle

\* a detector emits one more span over the text
DetectSlice ==
    /\ op \in {"init", "detect"}
    /\ Len(entities) < MaxPipeSpans
    /\ \E sp \in PipeSpans :
         /\ sp.start < sp.end
         /\ entities' = Append(entities, sp)
    /\ op' = "detect"
    /\ UNCHANGED <<textVars, before, policy, maskVars, pseudoVars, policyVars>>

\* lines 112-114: entities = merge_overlaps(entities); entities =
\* filter_by_policy(entities, policy); mask_text_spans(content, entities)
RunPipeline ==
    /\ op = "detect"
    /\ before' = entities
    /\ entities' = filter_by_policy(merge_overlaps(entities), policy)
    /\ spans' = entities'
    /\ masked' = mask_text_spans(text, entities', "x", TRUE, "None")
    /\ mpc' = "masked"
    /\ op' = "pipeline"
    /\ UNCHANGED <<textVars, policy, text, preserve_length, pseudonymize_fn, pseudoVars, policyVars>>

PipeNext == DetectSlice \/ MergeOverlaps \/ RunPipeline

SpecPipeline == PipeInit /\ [][PipeNext]_vars



(***************************************************************************)
(* Strings: helpers for str methods and the `re` patterns of               *)
(* pseudonymizer.py.                                                       *)
(***************************************************************************)
Digit == {"0", "1", "2", "3", "4", "5", "6", "7", "8", "9"}
Lower == {"a", "b", "c", "d", "e", "f", "g", "h", "i", "j", "k", "l", "m",
          "n", "o", "p", "q", "r", "s", "t", "u", "v", "w", "x", "y", "z"}
Upper == {"A", "B", "C", "D", "E", "F", "G", "H", "I", "J", "K", "L", "M",
          "N", "O", "P", "Q", "R", "S", "T", "U", "V", "W", "X", "Y", "Z"}
\* one non-ASCII lower-case letter (e with acute accent), written by its code point
NonAsciiLetter == {"U+00E9"}
Space == {" ", "\n"}

DigitValue(c) ==
    CASE c = "0" -> 0 [] c = "1" -> 1 [] c = "2" -> 2 [] c = "3" -> 3 [] c = "4" -> 4
      [] c = "5" -> 5 [] c = "6" -> 6 [] c = "7" -> 7 [] c = "8" -> 8 [] c = "9" -> 9

DigitChar(n) ==
    CASE n = 0 -> "0" [] n = 1 -> "1" [] n = 2 -> "2" [] n = 3 -> "3" [] n = 4 -> "4"
      [] n = 5 -> "5" [] n = 6 -> "6" [] n = 7 -> "7" [] n = 8 -> "8" [] n = 9 -> "9"

\* int(digits)
RECURSIVE ToInt(_)
ToInt(ds) ==
    IF ds = <<>> THEN 0
    ELSE 10 * ToInt(SubSeq(ds, 1, Len(ds) - 1)) + DigitValue(ds[Len(ds)])

\* str(n) for n >= 0
RECURSIVE IntToChars(_)
IntToChars(n) ==
    IF n < 10 THEN <<DigitChar(n)>>
    ELSE IntToChars(n \div 10) \o <<DigitChar(n % 10)>>

\* n as at least `width` digits, zero-padded (strftime's %Y, %m, %d)
Pad(n, width) ==
    LET ds == IntToChars(n)
    IN Repeat("0", width - Len(ds)) \o ds

\* s.startswith(lit, i - 1), i a 1-based index
StartsWith(s, i, l) ==
    /\ i + Len(l) - 1 <= Len(s)
    /\ \A k \in 1..Len(l) : s[i + k - 1] = l[k]

\* lit in s
Contains(s, l) == \E i \in 1..(Len(s) + 1) : StartsWith(s, i, l)

\* the first index j >= i with s[j] = c, or 0
IndexOf(s, i, c) ==
    LET hits == {j \in i..Len(s) : s[j] = c}
    IN IF hits = {} THEN 0 ELSE CHOOSE j \in hits : \A k \in hits : j <= k

\* s.replace(old, new) for a non-empty old: left to right, non-overlapping.
\* A match can only start where old's first character stands.
RECURSIVE ReplaceFrom(_, _, _, _)
ReplaceFrom(s, i, old, new) ==
    LET b == IndexOf(s, i, old[1])
    IN IF b = 0 THEN SubSeq(s, i, Len(s))
       ELSE IF StartsWith(s, b, old)
       THEN SubSeq(s, i, b - 1) \o new \o ReplaceFrom(s, b + Len(old), old, new)
       ELSE SubSeq(s, i, b) \o ReplaceFrom(s, b + 1, old, new)

Replace(s, old, new) == ReplaceFrom(s, 1, old, new)

\* s.strip()
RECURSIVE LStrip(_)
LStrip(s) == IF s # <<>> /\ Head(s) \in Space THEN LStrip(Tail(s)) ELSE s
RECURSIVE RStrip(_)
RStrip(s) ==
    IF s # <<>> /\ s[Len(s)] \in Space THEN RStrip(SubSeq(s, 1, Len(s) - 1)) ELSE s
\* a strip() that leaves trailing white space
Strip_LeftOnly(s) == LStrip(s)
Strip(s) == RStrip(LStrip(s))

\* s[-n:] for n > 0
LastN(s, n) == IF n >= Len(s) THEN s ELSE SubSeq(s, Len(s) - n + 1, Len(s))

\* the last index j >= i - 1 such that s[i..j] are all in the class
RECURSIVE RunEnd(_, _, _)
RunEnd(s, i, class) ==
    IF i <= Len(s) /\ s[i] \in class THEN RunEnd(s, i + 1, class) ELSE i - 1

(***************************************************************************)
(* pseudonymizer.py                                                        *)
(***************************************************************************)
L_index == <<"{", "i", "n", "d", "e", "x", "}">>
L_shape == <<"{", "s", "h", "a", "p", "e", "}">>
L_hash == <<"{", "h", "a", "s", "h">>
L_date == <<"{", "d", "a", "t", "e", ":">>
L_orig_last == <<"{", "o", "r", "i", "g", "_", "l", "a", "s", "t", ":">>

\* _token_shape
TokenShapeChar(ch) ==
    IF ch \in Digit THEN "9"
    ELSE IF ch \in Upper THEN "A"
    ELSE IF ch \in Lower \cup NonAsciiLetter THEN "a"
    ELSE IF ch \in Space THEN " "
    ELSE ch

token_shape(value) == [i \in 1..Len(value) |-> TokenShapeChar(value[i])]

\* len(hexdigest()) of the two algorithms
Sha256HexLen == 64
Sha1HexLen == 40
HexLen(algo) == IF algo = "sha1" THEN Sha1HexLen ELSE Sha256HexLen

\* a _scoped_key that leaves the document key out
scoped_key_EnvOnly(config) == config.env_key
\* _scoped_key: HMAC(env_key, doc_key) if doc_key is present, else env_key.
\* An HMAC value is the term <<"hmac", algo, key, message>>.
scoped_key(config) ==
    IF config.doc_key # ""
    THEN ToString(<<"hmac", config.algo, config.env_key, config.doc_key>>)
    ELSE config.env_key

\* _digest_hex(message)[:n]: the i-th hex character of HMAC(scoped, message) is
\* a symbol that names the algorithm, the key and the message, so two digests
\* share a character only if they are the same HMAC.
digest_prefix(config, message, n) ==
    [i \in 1..Min(n, HexLen(config.algo)) |->
        ToString(<<"hex", config.algo, scoped_key(config), message, i>>)]

\* date.strftime(fmt) for the directives %Y, %m, %d and %%
RECURSIVE Strftime(_, _, _)
Strftime(fmt, i, date) ==
    IF i > Len(fmt) THEN <<>>
    ELSE IF fmt[i] = "%" /\ i < Len(fmt)
    THEN (CASE fmt[i + 1] = "Y" -> Pad(date.Y, 4)
            [] fmt[i + 1] = "m" -> Pad(date.m, 2)
            [] fmt[i + 1] = "d" -> Pad(date.d, 2)
            [] fmt[i + 1] = "%" -> <<"%">>
            [] OTHER -> <<"%", fmt[i + 1]>>) \o Strftime(fmt, i + 2, date)
    ELSE <<fmt[i]>> \o Strftime(fmt, i + 1, date)

\* _HASH_PLACEHOLDER_RE.sub(_expand_hash, s):  \{hash(\d+)\}
\* (the scan goes from one "{" to the next: no match starts elsewhere)
RECURSIVE SubHash(_, _, _, _)
SubHash(s, i, config, message) ==
    LET b == IndexOf(s, i, "{")
        j == RunEnd(s, b + Len(L_hash), Digit)
    IN IF b = 0 THEN SubSeq(s, i, Len(s))
       ELSE IF /\ StartsWith(s, b, L_hash)
               /\ j >= b + Len(L_hash)
               /\ j + 1 <= Len(s)
               /\ s[j + 1] = "}"
       THEN SubSeq(s, i, b - 1)
                \o digest_prefix(config, message, ToInt(SubSeq(s, b + Len(L_hash), j)))
                \o SubHash(s, j + 2, config, message)
       ELSE SubSeq(s, i, b) \o SubHash(s, b + 1, config, message)

\* _DATE_PLACEHOLDER_RE.sub(_expand_date, s):  \{date:([^}]+)\}
RECURSIVE SubDate(_, _, _)
SubDate(s, i, date) ==
    LET b == IndexOf(s, i, "{")
        j == IndexOf(s, b + Len(L_date), "}")
    IN IF b = 0 THEN SubSeq(s, i, Len(s))
       ELSE IF StartsWith(s, b, L_date) /\ j > b + Len(L_date)
       THEN SubSeq(s, i, b - 1)
                \o Strftime(SubSeq(s, b + Len(L_date), j - 1), 1, date)
                \o SubDate(s, j + 1, date)
       ELSE SubSeq(s, i, b) \o SubDate(s, b + 1, date)

\* _ORIG_LAST_RE.sub(_expand_orig_last, s):  \{orig_last:(\d+)\}
RECURSIVE SubOrigLast(_, _, _)
SubOrigLast(s, i, normalized) ==
    LET b == IndexOf(s, i, "{")
        j == RunEnd(s, b + Len(L_orig_last), Digit)
        n == ToInt(SubSeq(s, b + Len(L_orig_last), j))
    IN IF b = 0 THEN SubSeq(s, i, Len(s))
       ELSE IF /\ StartsWith(s, b, L_orig_last)
               /\ j >= b + Len(L_orig_last)
               /\ j + 1 <= Len(s)
               /\ s[j + 1] = "}"
       THEN SubSeq(s, i, b - 1)
                \o (IF n > 0 THEN LastN(normalized, n) ELSE <<>>)
                \o SubOrigLast(s, j + 2, normalized)
       ELSE SubSeq(s, i, b) \o SubOrigLast(s, b + 1, normalized)

\* f"{entity_type}␟{normalized}"
DigestMessage(type_chars, normalized) == type_chars \o <<"U+241F">> \o normalized

\* An optional argument is <<>> (None) or <<value>>.
None == <<>>
Some(v) == <<v>>

\* the body of pseudonymize with keep_parts applied whatever the template
Render_AlwaysAppend(config, normalized, type_chars, template, index, date, keep_parts) ==
    LET message == DigestMessage(type_chars, normalized)
        r1 == Replace(template, L_index, IntToChars(index))
        r2 == IF Contains(r1, L_shape) THEN Replace(r1, L_shape, token_shape(normalized))
              ELSE r1
        r3 == SubHash(r2, 1, config, message)
        r4 == SubDate(r3, 1, date)
        r5 == SubOrigLast(r4, 1, normalized)
    IN IF "last" \in DOMAIN keep_parts /\ keep_parts.last > 0
       THEN r5 \o LastN(normalized, keep_parts.last)
       ELSE r5

\* the body of Pseudonymizer.pseudonymize once index and date are settled
\* (pseudonymizer.py:102-138)
Render(config, normalized, type_chars, template, index, date, keep_parts) ==
    LET message == DigestMessage(type_chars, normalized)
        r1 == Replace(template, L_index, IntToChars(index))
        r2 == IF Contains(r1, L_shape) THEN Replace(r1, L_shape, token_shape(normalized))
              ELSE r1
        r3 == SubHash(r2, 1, config, message)
        r4 == SubDate(r3, 1, date)
        r5 == SubOrigLast(r4, 1, normalized)
    IN IF /\ "last" \in DOMAIN keep_parts
          /\ keep_parts.last > 0
          /\ ~Contains(template, L_orig_last)
       THEN r5 \o LastN(normalized, keep_parts.last)
       ELSE r5

\* next_index with one counter shared by the types seen so far
next_index_Shared(counters, entity_type) ==
    [t \in DOMAIN counters \cup {entity_type} |-> Get(counters, entity_type, 0) + 1]

\* next_index: the counters after the call; the index returned is their new
\* value for the type
next_index(counters, entity_type) ==
    [t \in DOMAIN counters \cup {entity_type} |->
        IF t = entity_type THEN Get(counters, entity_type, 0) + 1 ELSE counters[t]]

\* Pseudonymizer.pseudonymize on an instance with the given config and
\* counters, at the time `now`: the string returned and the counters left.
pseudonymize(config, counters, original_value, entity_type, type_chars, template, index, date, keep_parts, now) ==
    LET normalized == Strip(original_value)
        counters1 == IF index = None THEN next_index(counters, entity_type) ELSE counters
        index1 == IF index = None THEN counters1[entity_type] ELSE index[1]
        date1 == IF date = None THEN now ELSE date[1]
    IN [out |-> Render(config, normalized, type_chars, template, index1, date1, keep_parts),
        counters |-> counters1,
        index |-> index1,
        date |-> date1,
        normalized |-> normalized]


(***************************************************************************)
(* Pseudonymizer runs: one long-lived instance pz, and instances that are  *)
(* constructed for a single call.  The calls of one run share the          *)
(* entity_type, template and keep_parts in `probe`.                        *)
(***************************************************************************)
EnvKeys == {"envA", "envB"}
DocKeys == {"", "doc1"}

\* tests/test_pseudonymizer.py:23 and a later day
Date1 == [Y |-> 2025, m |-> 1, d |-> 2]
Date2 == [Y |-> 2026, m |-> 11, d |-> 3]
Dates == {Date1, Date2}

T_hash == <<"N", "_", "{", "h", "a", "s", "h", "2", "}">>
T_all == <<"{", "h", "a", "s", "h", "1", "}", "{", "i", "n", "d", "e", "x", "}", "{", "d", "a", "t", "e", ":", "%", "d", "}", "{", "s", "h", "a", "p", "e", "}", "{", "o", "r", "i", "g", "_", "l", "a", "s", "t", ":", "2", "}">>
T_shape0 == <<"{", "h", "a", "s", "h", "0", "}", "{", "s", "h", "a", "p", "e", "}">>
ProbeTemplates == {T_hash, T_all}

KeepPartsArgs == {<<>>, [last |-> 1]}

\* two spellings of one value, which strip() makes equal
PseudoOriginals == {<<" ", "a", "1">>, <<"a", "1", "\n">>}

Probes ==
    [entity_type : {"email"}, template : ProbeTemplates, keep_parts : KeepPartsArgs]
       \cup [entity_type : {"email"}, template : {T_shape0}, keep_parts : {<<>>}]
       \cup [entity_type : {"phone"}, template : {T_hash}, keep_parts : {<<>>}]

\* the original value without the white space around it, as a caller that
\* compares two results sees it
Trimmed(s) ==
    LET I == {i \in 1..Len(s) : s[i] \notin Space}
    IN IF I = {} THEN <<>>
       ELSE SubSeq(s, CHOOSE i \in I : \A j \in I : i <= j,
                      CHOOSE i \in I : \A j \in I : j <= i)

Call(instance, config, original, r, p) ==
    [called |-> TRUE,
     instance |-> instance,
     env_key |-> config.env_key,
     doc_key |-> config.doc_key,
     algo |-> config.algo,
     entity_type |-> p.entity_type,
     template |-> p.template,
     keep_parts |-> p.keep_parts,
     trimmed |-> Trimmed(original),
     index |-> r.index,
     date |-> r.date,
     out |-> r.out]

\* pz = Pseudonymizer("envA", d)
PseudoInit ==
    /\ \E d \in DocKeys :
         pz = [config |-> [env_key |-> "envA", doc_key |-> d, algo |-> "sha256"],
               counters |-> <<>>]
    /\ probe \in Probes
    /\ lastcall = NoCall
    /\ refcall = NoCall
    /\ auto_calls = <<>>
    /\ PolicyIdle
    /\ AggIdle
    /\ MaskIdle
    /\ TextIdle

\* the history after one more call without index for the type
Counted(calls, entity_type) ==
    (entity_type :> Get(calls, entity_type, 0) + 1) @@ calls

\* pz.set_document_key(d)
SetDocumentKey ==
    /\ \E d \in DocKeys :
         pz' = [config |-> [pz.config EXCEPT !.doc_key = d], counters |-> <<>>]
    /\ auto_calls' = <<>>
    /\ UNCHANGED <<textVars, probe, lastcall, refcall, policyVars, aggVars, maskVars>>

\* pz.pseudonymize(original, entity_type=..., template=..., index=..., date=...,
\* keep_parts=...), the clock reading `now`
Pseudonymize ==
    /\ Get(pz.counters, probe.entity_type, 0) < MaxCounter
    /\ \E original \in PseudoOriginals, index \in {None, Some(1)}, date \in {None, Some(Date1)} :
       \E now \in (IF date = None THEN Dates ELSE {Date1}) :
         LET r == pseudonymize(pz.config, pz.counters, original, probe.entity_type,
                               TypeChars(probe.entity_type), probe.template,
                               index, date, probe.keep_parts, now)
         IN /\ pz' = [pz EXCEPT !.counters = r.counters]
            /\ lastcall' = Call("pz", pz.config, original, r, probe)
            /\ auto_calls' = IF index = None THEN Counted(auto_calls, probe.entity_type)
                                              ELSE auto_calls
    /\ UNCHANGED <<textVars, probe, refcall, policyVars, aggVars, maskVars>>

\* Pseudonymizer(env, "doc1").pseudonymize(...): a call on a new instance
PseudonymizeOnNewInstance ==
    /\ \E e \in EnvKeys, d \in {"doc1"},
          original \in PseudoOriginals, index \in {None, Some(1)}, date \in {None, Some(Date1)} :
       \E now \in (IF date = None THEN Dates ELSE {Date1}) :
         LET config == [env_key |-> e, doc_key |-> d, algo |-> "sha256"]
             r == pseudonymize(config, <<>>, original, probe.entity_type,
                               TypeChars(probe.entity_type), probe.template,
                               index, date, probe.keep_parts, now)
         IN lastcall' = Call("new", config, original, r, probe)
    /\ UNCHANGED <<textVars, pz, probe, refcall, auto_calls, policyVars, aggVars, maskVars>>

\* the caller keeps the result of the latest call
Remember ==
    /\ lastcall.called
    /\ refcall # lastcall
    /\ refcall' = lastcall
    /\ UNCHANGED <<textVars, pz, probe, lastcall, auto_calls, policyVars, aggVars, maskVars>>

PseudoNext == SetDocumentKey \/ Pseudonymize \/ PseudonymizeOnNewInstance \/ Remember

SpecPseudo == PseudoInit /\ [][PseudoNext]_vars


(***************************************************************************)
(* Counter runs: calls of several entity types on the one instance pz,     *)
(* with the template of tests/test_pseudonymizer.py:59, with and without   *)
(* an index given by the caller.                                           *)
(***************************************************************************)
T_index == <<"N", "{", "i", "n", "d", "e", "x", "}">>
CounterTypes == {"email", "phone"}
IndexArgs == {None, Some(0), Some(7)}

CounterInit ==
    /\ \E d \in DocKeys :
         pz = [config |-> [env_key |-> "envA", doc_key |-> d, algo |-> "sha256"],
               counters |-> <<>>]
    /\ probe = <<>>
    /\ lastcall = NoCall
    /\ refcall = NoCall
    /\ auto_calls = <<>>
    /\ PolicyIdle
    /\ AggIdle
    /\ MaskIdle
    /\ TextIdle

\* pz.pseudonymize("a1", entity_type=et, template="N{index}", index=index)
PseudonymizeIndexed ==
    /\ \E et \in CounterTypes, index \in IndexArgs :
         /\ Get(pz.counters, et, 0) < MaxCounter
         /\ LET r == pseudonymize(pz.config, pz.counters, <<"a", "1">>, et, TypeChars(et),
                                  T_index, index, None, <<>>, Date1)
                calls == IF index = None THEN Counted(auto_calls, et) ELSE auto_calls
            IN /\ pz' = [pz EXCEPT !.counters = r.counters]
               /\ auto_calls' = calls
               /\ lastcall' = [called |-> TRUE, entity_type |-> et, index |-> index,
                               nth |-> Get(calls, et, 0), before |-> pz.counters,
                               after |-> r.counters, out |-> r.out]
    /\ UNCHANGED <<textVars, probe, refcall, policyVars, aggVars, maskVars>>

CounterNext == SetDocumentKey \/ PseudonymizeIndexed

SpecCounters == CounterInit /\ [][CounterNext]_vars


(***************************************************************************)
(* Token runs: calls on new instances with templates in which a token      *)
(* stands inside another, templates with a token the pseudonymizer does    *)
(* not know, and templates with several tokens side by side.               *)
(***************************************************************************)
T_hash_index == <<"{", "h", "a", "s", "h", "{", "i", "n", "d", "e", "x", "}", "}">>
T_date_orig_last == <<"{", "d", "a", "t", "e", ":", "{", "o", "r", "i", "g", "_", "l", "a", "s", "t", ":", "4", "}", "}">>
T_unknown == <<"<", "{", "u", "n", "k", "n", "o", "w", "n", "}", "{", "h", "a", "s", "h", "}", ">">>
T_index_shape == <<"{", "i", "n", "d", "e", "x", "}", "-", "{", "s", "h", "a", "p", "e", "}">>
T_orig_last_index == <<"{", "o", "r", "i", "g", "_", "l", "a", "s", "t", ":", "{", "i", "n", "d", "e", "x", "}", "}">>
T_date_hash == <<"{", "d", "a", "t", "e", ":", "{", "h", "a", "s", "h", "2", "}", "}">>
TokenTemplates ==
    {T_hash_index, T_date_orig_last, T_orig_last_index, T_date_hash, T_unknown, T_index_shape, T_all}
TokenTypes == {"email", "phone", "person_name", "address", "postal_code", "credentials"}
TokenProbes == [entity_type : TokenTypes, template : TokenTemplates, keep_parts : {<<>>}]

TokenInit ==
    /\ pz = [config |-> [env_key |-> "envA", doc_key |-> "doc1", algo |-> "sha256"],
             counters |-> <<>>]
    /\ probe \in TokenProbes
    /\ lastcall = NoCall
    /\ refcall = NoCall
    /\ auto_calls = <<>>
    /\ PolicyIdle
    /\ AggIdle
    /\ MaskIdle
    /\ TextIdle

TokenNext == PseudonymizeOnNewInstance

SpecTokens == TokenInit /\ [][TokenNext]_vars

(***************************************************************************)
(* Kept-characters runs: calls on new instances with templates that hold   *)
(* an {orig_last:M} token, the opening of one, or none, and keep_parts     *)
(* with last = 0, 1 or 5 (tests/test_pseudonymizer.py:45-54).              *)
(***************************************************************************)
OrigLastToken(m) == L_orig_last \o <<DigitChar(m), "}">>
KeepWidths == {0, 1, 5}
KeepTemplates ==
    {T_hash, <<"<">> \o L_orig_last, <<"<">> \o L_orig_last \o <<"}", ">">>}
       \cup {<<"<">> \o OrigLastToken(m) \o <<">">> : m \in KeepWidths}
KeepProbes ==
    [entity_type : {"email", "phone"}, template : KeepTemplates,
     keep_parts : {<<>>} \cup {[last |-> n] : n \in KeepWidths}]

KeepInit ==
    /\ pz = [config |-> [env_key |-> "envA", doc_key |-> "doc1", algo |-> "sha256"],
             counters |-> <<>>]
    /\ probe \in KeepProbes
    /\ lastcall = NoCall
    /\ refcall = NoCall
    /\ auto_calls = <<>>
    /\ PolicyIdle
    /\ AggIdle
    /\ MaskIdle
    /\ TextIdle

KeepNext == PseudonymizeOnNewInstance

SpecKeep == KeepInit /\ [][KeepNext]_vars


(***************************************************************************)
(* Policy validation (policy.py).  A value of the raw policy is written    *)
(* with its Python type: [str |-> characters], [int |-> n], [bool |-> b],  *)
(* [list |-> elements], [py |-> "None"]; a dict is a function on its keys. *)
(* The normalized policy holds plain values: entities is a list of type    *)
(* tags, thresholds maps tags to hundredths, an action entry holds the     *)
(* action's and the template's characters and keep_parts = [last |-> n].   *)
(***************************************************************************)
PyTags == {"str", "int", "bool", "list", "py"}
IsPyDict(v) == DOMAIN v \cap PyTags = {}
IsStr(v) == "str" \in DOMAIN v
\* isinstance(v, int): bool is a subclass of int
IsInt(v) == "int" \in DOMAIN v \/ "bool" \in DOMAIN v
\* isinstance(v, list)
IsList(v) == "list" \in DOMAIN v
IntOf(v) == IF "int" \in DOMAIN v THEN v.int ELSE IF v.bool THEN 1 ELSE 0

\* bool(v)
Truthy(v) ==
    IF IsPyDict(v) THEN DOMAIN v # {}
    ELSE IF "str" \in DOMAIN v THEN v.str # <<>>
    ELSE IF "list" \in DOMAIN v THEN v.list # <<>>
    ELSE IF "py" \in DOMAIN v THEN FALSE
    ELSE IntOf(v) # 0

\* str(v) of a str, an int >= 0 or a bool
PyStr(v) ==
    IF "str" \in DOMAIN v THEN v.str
    ELSE IF "int" \in DOMAIN v THEN IntToChars(v.int)
    ELSE IF v.bool THEN <<"T", "r", "u", "e">> ELSE <<"F", "a", "l", "s", "e">>

UpperSeq == <<"A", "B", "C", "D", "E", "F", "G", "H", "I", "J", "K", "L", "M", "N", "O", "P", "Q", "R", "S", "T", "U", "V", "W", "X", "Y", "Z">>
LowerSeq == <<"a", "b", "c", "d", "e", "f", "g", "h", "i", "j", "k", "l", "m", "n", "o", "p", "q", "r", "s", "t", "u", "v", "w", "x", "y", "z">>
LowerChar(ch) ==
    IF ch \in Upper THEN LowerSeq[CHOOSE i \in 1..Len(UpperSeq) : UpperSeq[i] = ch] ELSE ch
UpperChar(ch) ==
    IF ch \in Lower THEN UpperSeq[CHOOSE i \in 1..Len(LowerSeq) : LowerSeq[i] = ch] ELSE ch
\* s.lower(), s.upper()
RECURSIVE ToLower(_)
ToLower(s) == IF s = <<>> THEN <<>> ELSE <<LowerChar(Head(s))>> \o ToLower(Tail(s))
RECURSIVE ToUpper(_)
ToUpper(s) == IF s = <<>> THEN <<>> ELSE <<UpperChar(Head(s))>> \o ToUpper(Tail(s))

A_remove == <<"r", "e", "m", "o", "v", "e">>
A_pseudonymize == <<"p", "s", "e", "u", "d", "o", "n", "y", "m", "i", "z", "e">>
A_format == <<"f", "o", "r", "m", "a", "t">>
A_placeholder == <<"p", "l", "a", "c", "e", "h", "o", "l", "d", "e", "r">>
ALLOWED_ACTIONS == {A_remove, A_pseudonymize, A_format, A_placeholder}

L_orig == <<"{", "o", "r", "i", "g", "}">>
L_text == <<"{", "t", "e", "x", "t", "}">>

KnownTypes == {"email", "phone", "person_name", "address", "postal_code", "credentials"}
\* the type tag spelled by the characters; any other string is its own tag
Intern(chars) ==
    IF \E t \in KnownTypes : TypeChars(t) = chars
    THEN CHOOSE t \in KnownTypes : TypeChars(t) = chars
    ELSE ToString(chars)

DictWithout(d, key) ==
    IF DOMAIN d \ {key} = {} THEN <<>> ELSE [k \in DOMAIN d \ {key} |-> d[k]]

RECURSIVE StrEach(_)
\* [str(e) for e in entities]
StrEach(es) == IF es = <<>> THEN <<>> ELSE <<Intern(PyStr(Head(es)))>> \o StrEach(Tail(es))

\* lines 27-39: the entry built for one action configuration
NormalizeEntry(cfg) ==
    LET action0 == IF "action" \in DOMAIN cfg THEN ToLower(PyStr(cfg["action"])) ELSE A_remove
        action == IF action0 \in ALLOWED_ACTIONS THEN action0 ELSE A_remove
        e1 == "action" :> action
        e2 == IF /\ action \in {A_pseudonymize, A_placeholder, A_format}
                 /\ "template" \in DOMAIN cfg
                 /\ IsStr(cfg["template"])
              THEN e1 @@ ("template" :> cfg["template"].str)
              ELSE e1
        kp == Get(cfg, "keep_parts", [py |-> "None"])
    IN IF /\ IsPyDict(kp)
          /\ "last" \in DOMAIN kp
          /\ IsInt(kp["last"])
          /\ IntOf(kp["last"]) >= 0
       THEN e2 @@ ("keep_parts" :> [last |-> IntOf(kp["last"])])
       ELSE e2

\* lines 24-40: non-dict configurations are skipped
NormalizeActions(actions) ==
    LET keys == {et \in DOMAIN actions : IsPyDict(actions[et])}
    IN IF keys = {} THEN <<>> ELSE [et \in keys |-> NormalizeEntry(actions[et])]

UnsafeTemplate(tmpl) == Contains(tmpl, L_orig) \/ Contains(tmpl, L_text)

\* a template check that looks for {orig} alone
StripUnsafeTemplates_OrigOnly(actions) ==
    IF DOMAIN actions = {} THEN <<>>
    ELSE [et \in DOMAIN actions |->
            IF "template" \in DOMAIN actions[et] /\ Contains(actions[et]["template"], L_orig)
            THEN DictWithout(actions[et], "template")
            ELSE actions[et]]
\* a template check that deletes the entry of an unsafe template
StripUnsafeTemplates_DropEntry(actions) ==
    LET keep == {et \in DOMAIN actions :
                    ~("template" \in DOMAIN actions[et] /\ UnsafeTemplate(actions[et]["template"]))}
    IN IF keep = {} THEN <<>> ELSE [et \in keep |-> actions[et]]
\* lines 43-47: del out["actions"][et]["template"]
StripUnsafeTemplates(actions) ==
    IF DOMAIN actions = {} THEN <<>>
    ELSE [et \in DOMAIN actions |->
            IF "template" \in DOMAIN actions[et] /\ UnsafeTemplate(actions[et]["template"])
            THEN DictWithout(actions[et], "template")
            ELSE actions[et]]

\* {str(k): float(v) for k, v in thresholds.items() if _is_number(v)}: the
\* strings of the runs are not numerals, so the numbers are the ints and bools
NormalizeThresholds(thresholds) ==
    LET keys == {k \in DOMAIN thresholds : IsInt(thresholds[k])}
    IN IF keys = {} THEN <<>> ELSE [k \in keys |-> IntOf(thresholds[k])]

Raised(kind) == [py |-> kind]

\* validate_and_normalize_policy; Raised(...) when the call raises
validate_and_normalize_policy(p) ==
    IF ~IsPyDict(p)
    THEN [mask_all |-> FALSE, entities |-> <<>>, actions |-> <<>>, thresholds |-> <<>>]
    ELSE
      LET entities0 == Get(p, "entities", [list |-> <<>>])
          entities1 == IF IsList(entities0) THEN entities0.list ELSE <<>>
          thresholds0 == Get(p, "thresholds", <<>>)
          thresholds1 == IF Truthy(thresholds0) THEN thresholds0 ELSE <<>>
          actions0 == Get(p, "actions", <<>>)
          actions1 == IF Truthy(actions0) /\ IsPyDict(actions0) THEN actions0 ELSE <<>>
          out == [mask_all |-> Truthy(Get(p, "mask_all", [bool |-> FALSE])),
                  entities |-> StrEach(entities1),
                  thresholds |-> NormalizeThresholds(thresholds1),
                  actions |-> StripUnsafeTemplates(NormalizeActions(actions1))]
      IN IF ~IsPyDict(thresholds1) THEN Raised("AttributeError")
         ELSE IF "preserve_length" \in DOMAIN p
         THEN out @@ ("preserve_length" :> Truthy(p["preserve_length"]))
         ELSE out

\* _map_default_template with the fallback <TYPE>_{hash6} for every type
map_default_template_Generic(entity_type) ==
    ToUpper(TypeChars(entity_type)) \o <<"_", "{", "h", "a", "s", "h", "6", "}">>

\* _map_default_template
map_default_template(entity_type) ==
    CASE entity_type = "person_name" -> <<"N", "A", "M", "E", "_", "{", "h", "a", "s", "h", "8", "}">>
      [] entity_type = "address" -> <<"A", "D", "D", "R", "E", "S", "S", "_", "{", "h", "a", "s", "h", "6", "}">>
      [] entity_type = "email" -> <<"E", "M", "A", "I", "L", "_", "{", "h", "a", "s", "h", "6", "}", "@", "m", "a", "s", "k", ".", "l", "o", "c", "a", "l">>
      [] entity_type = "phone" -> <<"P", "H", "O", "N", "E", "_", "{", "h", "a", "s", "h", "6", "}", "_", "{", "o", "r", "i", "g", "_", "l", "a", "s", "t", ":", "4", "}">>
      [] entity_type = "postal_code" -> <<"Z", "I", "P", "_", "{", "h", "a", "s", "h", "4", "}">>
      [] OTHER -> ToUpper(TypeChars(entity_type)) \o <<"_", "{", "h", "a", "s", "h", "6", "}">>

\* build_text_pseudonymize_fn(policy, pseudonymizer)(entity, original), the
\* pseudonymizer having the given config and counters: the replacement and
\* the counters left
text_pseudonymize_fn(p, config, counters, et, original, now) ==
    LET actions == Get(p, "actions", <<>>)
        cfg == Get(actions, et, <<>>)
        has_action == "action" \in DOMAIN cfg
        tmpl == IF "template" \in DOMAIN cfg THEN cfg["template"] ELSE <<>>
        kp == Get(cfg, "keep_parts", <<>>)
        call(template, keep_parts) ==
            LET r == pseudonymize(config, counters, original, et, TypeChars(et), template,
                                  None, None, keep_parts, now)
            IN [out |-> r.out, counters |-> r.counters]
    IN IF has_action /\ cfg["action"] = A_remove THEN [out |-> <<>>, counters |-> counters]
       ELSE IF has_action /\ cfg["action"] = A_placeholder
       THEN [out |-> IF tmpl # <<>> THEN tmpl ELSE Bracketed(et), counters |-> counters]
       ELSE IF has_action /\ cfg["action"] = A_pseudonymize
       THEN call(IF tmpl # <<>> THEN tmpl ELSE map_default_template(et), kp)
       ELSE IF has_action /\ cfg["action"] = A_format
       THEN call(L_shape, kp)
       ELSE call(map_default_template(et), <<>>)


\* resolve_pdf_mask_text(policy, pseudonymizer, entity_type, original_text),
\* the pseudonymizer having the given config and counters: None or the
\* replacement, and the counters left.  The caller passes a pseudonymizer
\* (pdf_processor.py:121), so the branches for None are not taken.
\* return pseudonymizer.pseudonymize(...): the string of the call r
Returned(r) == [out |-> Some(r.out), counters |-> r.counters]

resolve_pdf_mask_text(p, config, counters, et, original, now) ==
    LET actions == Get(p, "actions", <<>>)
        cfg == Get(actions, et, <<>>)
        has_action == "action" \in DOMAIN cfg
        tmpl == IF "template" \in DOMAIN cfg THEN cfg["template"] ELSE <<>>
        kp == Get(cfg, "keep_parts", <<>>)
        default == CASE et = "email" -> <<"E", "M", "A", "I", "L", "_", "{", "h", "a", "s", "h", "6", "}", "@", "m", "a", "s", "k", ".", "l", "o", "c", "a", "l">>
                     [] et = "phone" -> <<"P", "H", "O", "N", "E", "_", "{", "h", "a", "s", "h", "6", "}", "_", "{", "o", "r", "i", "g", "_", "l", "a", "s", "t", ":", "4", "}">>
                     [] et = "postal_code" -> <<"Z", "I", "P", "_", "{", "h", "a", "s", "h", "4", "}">>
                     [] OTHER -> ToUpper(TypeChars(et)) \o <<"_", "{", "h", "a", "s", "h", "6", "}">>
    IN IF has_action /\ cfg["action"] = A_remove THEN [out |-> None, counters |-> counters]
       ELSE IF has_action /\ cfg["action"] = A_placeholder
       THEN [out |-> Some(IF tmpl # <<>> THEN tmpl ELSE Bracketed(et)), counters |-> counters]
       ELSE IF has_action /\ cfg["action"] \in {A_pseudonymize, A_format}
       THEN Returned(pseudonymize(config, counters, original, et, TypeChars(et),
                                  IF cfg["action"] = A_format THEN L_shape
                                  ELSE IF tmpl # <<>> THEN tmpl ELSE default,
                                  None, None, kp, now))
       ELSE [out |-> None, counters |-> counters]


(***************************************************************************)
(* Policy runs: a raw policy is validated, then the replacement function   *)
(* built from the validated policy is applied to a span, the pseudonymizer *)
(* being a new pz.                                                         *)
(***************************************************************************)
\* the dicts holding `key` with one of the values, and the dict without it
Opt(key, values) == {<<>>} \cup {key :> v : v \in values}

RawActionValues ==
    {[str |-> A_pseudonymize], [str |-> <<"P", "l", "a", "c", "e", "h", "o", "l", "d", "e", "r">>], [str |-> A_format], [str |-> <<"s", "h", "r", "e", "d">>]}
RawTemplateValues ==
    {[str |-> T_hash], [str |-> L_orig], [str |-> <<"a", "{", "t", "e", "x", "t", "}">>], [int |-> 5]}
RawKeepPartsValues ==
    {[last |-> [int |-> 1]], [last |-> [int |-> 4]], [last |-> [int |-> -1]]}

RawCfgs ==
    {a @@ t @@ k : a \in Opt("action", RawActionValues),
                   t \in Opt("template", RawTemplateValues),
                   k \in Opt("keep_parts", RawKeepPartsValues)}
       \cup {[int |-> 1]}

PhoneCfgs ==
    {("action" :> [str |-> A_pseudonymize]) @@ ("template" :> [str |-> <<"a", "{", "t", "e", "x", "t", "}">>]),
     ("action" :> [str |-> A_format]) @@ ("keep_parts" :> [last |-> [int |-> 4]])}

RawActions ==
    {e @@ ph : e \in Opt("email", RawCfgs), ph \in Opt("phone", PhoneCfgs)}

\* the other fields of a policy, well-typed and not
RawBases ==
    {m @@ e @@ t @@ pl :
        m \in Opt("mask_all", {[bool |-> TRUE], [int |-> 0]}),
        e \in Opt("entities", {[list |-> <<[str |-> TypeChars("email")], [int |-> 5]>>],
                               [str |-> TypeChars("email")]}),
        t \in Opt("thresholds", {("email" :> [int |-> 70]) @@ ("phone" :> [str |-> <<"h", "i">>]),
                                 [list |-> <<[int |-> 1]>>]}),
        pl \in Opt("preserve_length", {[bool |-> FALSE]})}

BaseActions ==
    {("email" :> (("action" :> [str |-> A_pseudonymize]) @@ ("template" :> [str |-> L_orig]))),
     [list |-> <<[int |-> 1]>>]}

RawPolicies ==
    {[py |-> "None"]}
       \cup {"actions" :> a : a \in RawActions}
       \cup {b @@ a : b \in RawBases, a \in Opt("actions", BaseActions)}

PolicyTypes == KnownTypes
PolicyOriginals == {<<"a", "b", "1">>, <<"9", "9">>}

PolicyInit ==
    /\ raw_policy \in RawPolicies
    /\ norm_policy = NotADict
    /\ ppc = "raw"
    /\ pz = [config |-> [env_key |-> "envA", doc_key |-> "doc1", algo |-> "sha256"],
             counters |-> <<>>]
    /\ probe = <<>>
    /\ lastcall = NoCall
    /\ refcall = NoCall
    /\ auto_calls = <<>>
    /\ AggIdle
    /\ MaskIdle
    /\ TextIdle

\* norm_policy = validate_and_normalize_policy(raw_policy)
ValidateAndNormalize ==
    /\ ppc = "raw"
    /\ norm_policy' = validate_and_normalize_policy(raw_policy)
    /\ ppc' = IF IsPyDict(norm_policy') THEN "validated" ELSE "raised"
    /\ UNCHANGED <<textVars, raw_policy, pseudoVars, aggVars, maskVars>>

\* build_text_pseudonymize_fn(norm_policy, pz)({"type": et}, original)
ReplaceSpan ==
    /\ ppc = "validated"
    /\ \E et \in PolicyTypes, original \in PolicyOriginals :
         /\ LET r == text_pseudonymize_fn(norm_policy, pz.config, pz.counters, et, original, Date1)
            IN /\ pz' = [pz EXCEPT !.counters = r.counters]
               /\ lastcall' = [called |-> TRUE, entity_type |-> et, original |-> original,
                               counters |-> pz.counters, out |-> r.out]
               \* the function calls pz.pseudonymize at most once, without index
               /\ auto_calls' = IF r.counters = pz.counters THEN auto_calls
                                                            ELSE Counted(auto_calls, et)
    /\ ppc' = "replaced"
    /\ UNCHANGED <<textVars, raw_policy, norm_policy, probe, refcall, aggVars, maskVars>>

\* resolve_pdf_mask_text(norm_policy, q, et, original) for the span just
\* replaced, q a pseudonymizer in the state pz had before that replacement
ResolvePdfMaskText ==
    /\ ppc = "replaced"
    /\ LET r == resolve_pdf_mask_text(norm_policy, pz.config, lastcall.counters,
                                      lastcall.entity_type, lastcall.original, Date1)
       IN refcall' = [called |-> TRUE, entity_type |-> lastcall.entity_type,
                      original |-> lastcall.original, counters |-> lastcall.counters,
                      out |-> r.out]
    /\ ppc' = "resolved"
    /\ UNCHANGED <<textVars, raw_policy, norm_policy, pz, probe, lastcall, auto_calls, aggVars, maskVars>>

PolicyNext == ValidateAndNormalize \/ ReplaceSpan \/ ResolvePdfMaskText

SpecPolicy == PolicyInit /\ [][PolicyNext]_vars


(***************************************************************************)
(* The text pipeline: detectors/rules.py and processor.py.                 *)
(***************************************************************************)
AsciiAlnum == Lower \cup Upper \cup Digit
\* \w of a str pattern: letters of any script, digits and the underscore
WordChar == AsciiAlnum \cup NonAsciiLetter \cup {"_"}
\* [a-zA-Z0-9._%+-] and [a-zA-Z0-9.-]
LocalChar == AsciiAlnum \cup {".", "_", "%", "+", "-"}
DomainChar == AsciiAlnum \cup {".", "-"}

IsWord(s, i) == i >= 1 /\ i <= Len(s) /\ s[i] \in WordChar
\* \b in front of the character at index i (1-based)
Boundary(s, i) == IsWord(s, i - 1) # IsWord(s, i)

\* EMAIL_RE.match at index i: the index of the match's last character, or 0.
\* The greedy local part is the whole run in front of the "@"; the greedy
\* domain part gives back characters down to the last "." that is followed by
\* two or more letters and a word boundary.
EmailEnd(s, i) ==
    LET j == RunEnd(s, i, LocalChar)
        m == RunEnd(s, j + 2, DomainChar)
        tld(d) == RunEnd(s, d + 2, Lower \cup Upper)
        dots == {d \in (j + 2)..(m - 1) :
                    /\ s[d + 1] = "."
                    /\ tld(d) >= d + 3
                    /\ Boundary(s, tld(d) + 1)}
    IN IF /\ j >= i
          /\ Boundary(s, i)
          /\ j + 1 <= Len(s)
          /\ s[j + 1] = "@"
          /\ dots # {}
       THEN tld(CHOOSE d \in dots : \A d2 \in dots : d2 <= d)
       ELSE 0

\* find_all(EMAIL_RE, "email"): the matches of EMAIL_RE.finditer from index i
RECURSIVE FindEmails(_, _)
FindEmails(s, i) ==
    IF i > Len(s) THEN <<>>
    ELSE LET e == EmailEnd(s, i)
         IN IF e > 0 THEN <<Span("email", i - 1, e, 85)>> \o FindEmails(s, e + 1)
            ELSE FindEmails(s, i + 1)

\* detect_entities_rules for a selection within {"email"}
detect_entities_rules(s, selected) ==
    IF "email" \in SeqToSet(selected) THEN FindEmails(s, 1) ELSE <<>>

\* the detectors in the order process_text_file runs them
Detectors == <<"rules", "ner", "address", "secrets", "identifiers", "phi", "domain">>
\* the detectors whose call is wrapped in try/except (processor.py:88-111)
Guarded == {"ner", "address", "secrets", "identifiers", "phi", "domain"}

\* what one detector returns for a selection within {"email"}: the detectors
\* other than rules emit no email span
RunDetector(name, s, selected) ==
    IF name = "rules" THEN detect_entities_rules(s, selected) ELSE <<>>

\* lines 85-111: entities.extend(detector(content, selected)) for each
\* detector from the i-th on, a failing guarded detector adding nothing
RECURSIVE RunDetectors(_, _, _, _)
RunDetectors(i, s, selected, failing) ==
    IF i > Len(Detectors) THEN <<>>
    ELSE (IF Detectors[i] = failing THEN <<>> ELSE RunDetector(Detectors[i], s, selected))
            \o RunDetectors(i + 1, s, selected, failing)

\* re.sub(r"[A-Za-z0-9]", "x", content) keeping the letters
MaskAll_DigitsOnly(s) ==
    [i \in 1..Len(s) |-> IF s[i] \in Digit THEN "x" ELSE s[i]]
\* re.sub(r"[A-Za-z0-9]", "x", content)
MaskAll(s) ==
    [i \in 1..Len(s) |-> IF s[i] \in AsciiAlnum THEN "x" ELSE s[i]]

\* bool(policy) of a policy argument: None and {} are false
PolicyGiven(p) == IsDict(p) /\ DOMAIN p # {}

\* _load_entity_policy_from_env, the variable holding a JSON document that
\* is a dict with a list of strings as entities, something else, or nothing
load_entity_policy_from_env(env) ==
    LET raw == Get(env, "DOCMASK_ENTITY_POLICY", <<>>)
    IN IF ~IsDict(raw) THEN <<>>
       ELSE ("entities" :> Get(raw, "entities", <<>>)) @@ raw @@ ("mask_all" :> FALSE)

\* process_text_file(input, output, policy) with the input file holding
\* `file` (NotADict: no such file), the environment env, and the detector
\* `failing` raising when it is called ("none": no detector raises)
process_text_file(file, p, env, failing) ==
    IF ~IsDict(file)
    THEN [status |-> "error", error |-> "FileNotFoundError"]
    \* a file that does not decode as UTF-8 (a PDF document)
    ELSE IF "content" \notin DOMAIN file
    THEN [status |-> "error", error |-> "UnicodeDecodeError"]
    ELSE
      LET s == file.content
          pol == IF PolicyGiven(p) THEN p ELSE load_entity_policy_from_env(env)
          selected == Get(pol, "entities", <<>>)
          found == RunDetectors(1, s, selected, failing)
          ents == filter_by_policy(merge_overlaps(found), pol)
          out == mask_text_spans(s, ents, "x", TRUE, "None")
      IN IF Get(pol, "mask_all", FALSE)
         THEN [status |-> "success", output |-> MaskAll(s), detectors_run |-> <<>>,
               characters_processed |-> Len(s)]
         ELSE IF failing = "rules"
         THEN [status |-> "error", error |-> "RuntimeError"]
         ELSE [status |-> "success", output |-> out, detectors_run |-> Detectors,
               characters_processed |-> Len(out)]

(***************************************************************************)
(* Text runs: one call of process_text_file on a file, a policy argument   *)
(* and an environment.                                                     *)
(***************************************************************************)
\* tests/test_processor_unit.py:16 and :37
SeedText == <<"H", "e", "l", "l", "o", " ", "a", "l", "i", "c", "e", "@", "e", "x", "a", "m", "p", "l", "e", ".", "c", "o", "m", "!", "\n">>
NameText == <<"y", "o", "u", "r", " ", "n", "a", "m", "e", ":", " ", "a", "b", "c">>

TextAlphabet == {"a", "Z", "7", "U+00E9", " ", "@"}
SmallTexts == UNION {[1..n -> TextAlphabet] : n \in 0..MaxTextLen}
EmailTexts ==
    {SeedText, NameText, <<"a", "@", "b", ".", "c", "c">>, <<"a", "@", "b", ".", "c">>, <<"x", " ", "a", "@", "b", ".", "c", "c", "_">>, <<"a", "@", "b", ".", "c", "c", ".", "d", "d", " ", "x", "@", "y", ".", "z", "z">>,
     <<"U+00E9", "a", "@", "Z", ".", "c", "c">>, <<"a", "@", "b", ".", "c", "c", ".", "d">>, <<"a", "_", ".", "@", "7", "-", ".", "Z", "c", " ", "7">>}
Files == {[content |-> s] : s \in SmallTexts \cup EmailTexts} \cup {NotADict}

TextPolicies ==
    {m @@ e : m \in Opt("mask_all", {TRUE, FALSE}), e \in Opt("entities", {<<"email">>, <<>>})}
PolicyArgs == TextPolicies \cup {NotADict}
Environs ==
    {p @@ t @@ [DOC_MASKING_ENV_KEY |-> "envk", DOC_MASKING_DOC_KEY |-> "dockey"] :
        p \in Opt("DOCMASK_ENTITY_POLICY",
                  {NotADict, [entities |-> <<"email">>], [mask_all |-> TRUE]}),
        t \in Opt("DOCMASK_USE_DEFAULT_TEMPLATES", {"1"})}

TextInit ==
    /\ input_file \in Files
    /\ policy_arg \in PolicyArgs
    /\ environ \in Environs
    /\ result = NoResult
    /\ raising = "none"
    /\ PdfIdle
    /\ CliIdle
    /\ EvalIdle
    /\ AggIdle
    /\ MaskIdle
    /\ PseudoIdle
    /\ PolicyIdle

\* result = process_text_file(input, output, policy_arg)
ProcessTextFile ==
    /\ result = NoResult
    /\ \E failing \in {"none", "rules"} \cup Guarded :
         /\ result' = process_text_file(input_file, policy_arg, environ, failing)
         /\ raising' = failing
    /\ UNCHANGED <<input_file, policy_arg, environ, pdfVars, cliVars, evalVars, aggVars, maskVars, pseudoVars, policyVars>>

TextNext == ProcessTextFile

SpecText == TextInit /\ [][TextNext]_vars

(***************************************************************************)
(* detectors/address.py.  Scores are in hundredths: 70 is 0.7.  The texts  *)
(* of the runs hold "\n" as their only line break and ASCII digits as      *)
(* their only digits.                                                      *)
(***************************************************************************)
COMMON_STREET_SUFFIXES ==
    {<<"s", "t">>, <<"s", "t", "r", "e", "e", "t">>, <<"a", "v", "e">>, <<"a", "v", "e", "n", "u", "e">>, <<"r", "d">>,
     <<"r", "o", "a", "d">>, <<"b", "l", "v", "d">>, <<"l", "a", "n", "e">>, <<"l", "n">>, <<"d", "r">>,
     <<"d", "r", "i", "v", "e">>, <<"c", "t">>, <<"c", "o", "u", "r", "t">>, <<"p", "l">>, <<"p", "l", "a", "c", "e">>,
     <<"t", "r", "l">>, <<"t", "r", "a", "i", "l">>, <<"p", "k", "w", "y">>, <<"p", "a", "r", "k", "w", "a", "y">>, <<"s", "q">>,
     <<"s", "q", "u", "a", "r", "e">>, <<"h", "w", "y">>, <<"h", "i", "g", "h", "w", "a", "y">>, <<"c", "i", "r">>, <<"c", "i", "r", "c", "l", "e">>,
     <<"w", "a", "y">>}
UNIT_KEYWORDS == {<<"a", "p", "t">>, <<"u", "n", "i", "t">>, <<"s", "u", "i", "t", "e">>, <<"s", "t", "e">>, <<"#">>}
CITY_LABELS == {<<"c", "i", "t", "y">>, <<"t", "o", "w", "n">>, <<"v", "i", "l", "l", "a", "g", "e">>}
STATE_LABELS == {<<"s", "t", "a", "t", "e">>, <<"p", "r", "o", "v", "i", "n", "c", "e">>, <<"r", "e", "g", "i", "o", "n">>}
POSTAL_LABELS == {<<"z", "i", "p">>, <<"p", "o", "s", "t", "a", "l">>, <<"p", "o", "s", "t", "c", "o", "d", "e">>}
ADDRESS_LABELS == {<<"a", "d", "d", "r", "e", "s", "s">>, <<"a", "d", "d", "r">>}

\* text.splitlines(keepends=True)
RECURSIVE SplitLines(_)
SplitLines(s) ==
    LET b == IndexOf(s, 1, "\n")
    IN IF s = <<>> THEN <<>>
       ELSE IF b = 0 THEN <<s>>
       ELSE <<SubSeq(s, 1, b)>> \o SplitLines(SubSeq(s, b + 1, Len(s)))

\* s.split(): the runs of characters that are not white space
RECURSIVE Split(_)
Split(s) ==
    LET t == LStrip(s)
        ws == {i \in 1..Len(t) : t[i] \in Space}
        e == IF ws = {} THEN Len(t) + 1 ELSE CHOOSE i \in ws : \A k \in ws : i <= k
    IN IF t = <<>> THEN <<>>
       ELSE <<SubSeq(t, 1, e - 1)>> \o Split(SubSeq(t, e, Len(t)))

\* t.strip(chars)
RECURSIVE StripChars(_, _)
StripChars(t, cs) ==
    IF t # <<>> /\ Head(t) \in cs THEN StripChars(Tail(t), cs)
    ELSE IF t # <<>> /\ t[Len(t)] \in cs THEN StripChars(SubSeq(t, 1, Len(t) - 1), cs)
    ELSE t

\* t.isdigit()
IsDigit(t) == t # <<>> /\ \A i \in 1..Len(t) : t[i] \in Digit

\* s.find(sub)
Find(s, sub) ==
    LET hits == {i \in 1..(Len(s) + 1) : StartsWith(s, i, sub)}
    IN IF hits = {} THEN -1 ELSE (CHOOSE i \in hits : \A k \in hits : i <= k) - 1

\* _looks_like_street_line
looks_like_street_line(line) ==
    LET txt == Strip(line)
        low == ToLower(txt)
        split == Split(low)
        tokens == [i \in 1..Len(split) |-> StripChars(split[i], {",", ".", " "})]
        starts_with_number == IsDigit(tokens[1])
        has_suffix == \E i \in 1..Len(tokens) : tokens[i] \in COMMON_STREET_SUFFIXES
        has_unit == \E i \in 1..Len(tokens) : tokens[i] \in UNIT_KEYWORDS
    IN IF txt = <<>> THEN FALSE
       ELSE IF tokens = <<>> THEN FALSE
       ELSE (starts_with_number /\ has_suffix) \/ (has_suffix /\ has_unit)

\* the loop of detect_addresses from line idx on, the line starting at `start`
RECURSIVE AddressWalk(_, _, _)
AddressWalk(lines, idx, start) ==
    IF idx > Len(lines) THEN <<>>
    ELSE
      LET line == lines[idx]
          end == start + Len(line)
          stripped == Strip(line)
          has_label == \E lbl \in ADDRESS_LABELS : Contains(ToLower(stripped), lbl)
          street_like == looks_like_street_line(stripped)
          context_cue ==
              /\ idx + 1 <= Len(lines)
              /\ \E lbl \in CITY_LABELS \cup STATE_LABELS \cup POSTAL_LABELS :
                    Contains(ToLower(Strip(lines[idx + 1])), lbl)
          found == [type |-> "address",
                    start |-> start + Find(line, stripped),
                    end |-> start + Find(line, stripped) + Len(stripped),
                    text |-> stripped,
                    score |-> IF street_like THEN 70 ELSE 60,
                    source |-> "heuristics"]
      IN IF stripped = <<>> THEN AddressWalk(lines, idx + 1, end)
         ELSE IF has_label \/ street_like \/ (street_like /\ context_cue)
         THEN <<found>> \o AddressWalk(lines, idx + 1, end)
         ELSE AddressWalk(lines, idx + 1, end)

\* detect_addresses(text, requested)
detect_addresses(txt, requested) ==
    IF "address" \notin SeqToSet(requested) THEN <<>>
    ELSE AddressWalk(SplitLines(txt), 1, 0)

(***************************************************************************)
(* Address runs: detect_addresses on a text of one or two lines, for the   *)
(* entity types policy.entities requests (processor.py:93).                *)
(***************************************************************************)
Line_street == <<"1", "2", " ", "M", "a", "i", "n", " ", "S", "t">>
Line_unit == <<"O", "a", "k", " ", "A", "v", "e", ",", " ", "A", "p", "t", " ", "4">>
Line_label == <<"A", "d", "d", "r", ":", " ", "h", "o", "m", "e">>
Line_city == <<"C", "i", "t", "y", ":", " ", "O", "z">>
Line_plain == <<"h", "e", "l", "l", "o">>
Line_padded == <<" ", "7", " ", "R", "d", ".", " ">>
Line_suffix == <<"M", "a", "i", "n", " ", "S", "t">>
Line_number == <<"1", "2", " ", "a", "p", "p", "l", "e", "s">>
AddressLines ==
    {Line_street, Line_unit, Line_label, Line_city, Line_plain, Line_padded, Line_suffix,
     Line_number, <<>>}
AddressTexts ==
    AddressLines \cup {a \o <<"\n">> \o b : a, b \in AddressLines}

AddressInit ==
    /\ text \in AddressTexts
    /\ policy \in {[entities |-> <<"address">>], [entities |-> <<"email">>]}
    /\ entities = <<>>
    /\ before = <<>>
    /\ op = "init"
    /\ spans = <<>>
    /\ preserve_length = TRUE
    /\ pseudonymize_fn = "None"
    /\ masked = <<>>
    /\ mpc = "idle"
    /\ PseudoIdle
    /\ PolicyIdle
    /\ TextIdle

\* entities = detect_addresses(text, policy.entities)
DetectAddresses ==
    /\ op = "init"
    /\ entities' = detect_addresses(text, policy.entities)
    /\ op' = "detected"
    /\ UNCHANGED <<before, policy, maskVars, pseudoVars, policyVars, textVars>>

AddressNext == DetectAddresses

SpecAddress == AddressInit /\ [][AddressNext]_vars

(***************************************************************************)
(* PDF processing (pdf_processor.py).  A document is its metadata, a dict  *)
(* of strings, and its pages; a page is the list of its text spans, each   *)
(* with its text and whether it has a bbox.  After processing, a span      *)
(* carries how it was treated: "kept", "redact" (a redaction with the      *)
(* replacement text), "textbox" (a blank redaction with the text drawn     *)
(* over it) or "blank" (a redaction without text).  The PDF library is     *)
(* the environment of the call: pdf_lib tells whether fitz can be          *)
(* imported and which of its calls raise.  Policies hold mask_all,         *)
(* entities within {"email"} and at most an action for email.              *)
(***************************************************************************)
\* mask_text_value
mask_text_value(value) ==
    [i \in 1..Len(value) |-> IF value[i] \in AsciiAlnum THEN "x" ELSE value[i]]

\* the policy as the Python object validate_and_normalize_policy receives
AsPyPolicy(p) ==
    [k \in DOMAIN p |->
        IF k = "entities"
        THEN [list |-> [i \in 1..Len(p[k]) |-> [str |-> TypeChars(p[k][i])]]]
        ELSE IF k = "actions" THEN p[k]
        ELSE [bool |-> p[k]]]

\* lines 53-80 for one span, the library rejecting a replacement text or not
MaskAllSpan(span, text_rejected) ==
    IF span.text = <<>> \/ ~span.bbox THEN span @@ [via |-> "kept"]
    ELSE [text |-> mask_text_value(span.text), bbox |-> TRUE,
          via |-> IF text_rejected THEN "textbox" ELSE "redact"]

\* security.py: derive_document_key(input_filepath, sample_bytes) for the one
\* input path of a run; sample_bytes is None for a page without blocks,
\* else the start of str(blocks)
derive_document_key(page) ==
    ToString(<<"sha256", "input_filepath", IF page = <<>> THEN None ELSE Some(page)>>)

\* lines 90-98: the pseudonymizer of a page, None without one
PagePseudonymizer(page, env, with_pseudonymizer) ==
    IF ~with_pseudonymizer THEN None
    ELSE LET from_environment == [env_key |-> Get(env, "DOC_MASKING_ENV_KEY", ""),
                                  doc_key |-> Get(env, "DOC_MASKING_DOC_KEY", ""),
                                  algo |-> "sha256"]
         IN Some([from_environment EXCEPT !.doc_key = derive_document_key(page)])

\* mask_pdf_spans (redaction.py:49-62) on the item holding the masked text
\* r.out: the text is drawn unless it is None or empty or the library rejects it
MaskPdfSpan(r, text_rejected) ==
    [span |-> IF r.out # None /\ r.out[1] # <<>> /\ ~text_rejected
              THEN [text |-> r.out[1], bbox |-> TRUE, via |-> "redact"]
              ELSE [text |-> <<>>, bbox |-> TRUE, via |-> "blank"],
     counters |-> r.counters]

\* lines 101-124 for one span: the item given to mask_pdf_spans and what
\* mask_pdf_spans (redaction.py:49-62) makes of it; pseudo is None or
\* Some(config), counters the pseudonymizer's counters
EntitySpan(span, selected, norm, pseudo, counters, text_rejected) ==
    IF span.text = <<>> \/ ~span.bbox
    THEN [span |-> span @@ [via |-> "kept"], counters |-> counters]
    ELSE IF ~("email" \in selected /\ FindEmails(span.text, 1) # <<>>)
    THEN [span |-> span @@ [via |-> "kept"], counters |-> counters]
    ELSE MaskPdfSpan(IF pseudo # None
                     THEN resolve_pdf_mask_text(norm, pseudo[1], counters, "email",
                                                span.text, Date1)
                     ELSE [out |-> Some(mask_text_value(span.text)), counters |-> counters],
                     text_rejected)

\* lines 100-124 for the spans of one page, in order
RECURSIVE EntityPage(_, _, _, _, _, _)
\* the span h processed, then the spans after it
PageWith(h, t) == [spans |-> <<h.span>> \o t.spans, counters |-> t.counters]
EntityPageFrom(h, rest, selected, norm, pseudo, text_rejected) ==
    PageWith(h, EntityPage(rest, selected, norm, pseudo, h.counters, text_rejected))
EntityPage(page, selected, norm, pseudo, counters, text_rejected) ==
    IF page = <<>> THEN [spans |-> <<>>, counters |-> counters]
    ELSE EntityPageFrom(EntitySpan(Head(page), selected, norm, pseudo, counters, text_rejected),
                        Tail(page), selected, norm, pseudo, text_rejected)

RECURSIVE SumLen(_, _)
\* total_chars over the spans of a page
SumLen(page, need_bbox) ==
    IF page = <<>> THEN 0
    ELSE (IF Head(page).text # <<>> /\ (Head(page).bbox \/ ~need_bbox)
          THEN Len(Head(page).text) ELSE 0) + SumLen(Tail(page), need_bbox)

RECURSIVE TotalChars(_, _)
TotalChars(pages, need_bbox) ==
    IF pages = <<>> THEN 0
    ELSE SumLen(Head(pages), need_bbox) + TotalChars(Tail(pages), need_bbox)

\* process_pdf_file(input, output, p): the result and the document saved
\* (NotADict: none)
process_pdf_file(file, p, env, lib) ==
    LET failed(kind) == [result |-> [status |-> "error", error |-> kind], saved |-> NotADict,
                         pseudo_log |-> <<>>]
    IN
    IF ~IsDict(file) THEN failed("FileNotFoundError")
    ELSE IF ~lib.fitz THEN failed("MissingDependency")
    ELSE IF "doc" \notin DOMAIN file \/ lib.open_raises THEN failed("FileDataError")
    ELSE
      LET doc == file.doc
          \* lines 36-39
          metadata == IF lib.set_metadata_raises THEN doc.metadata ELSE <<>>
          mask_all == IF IsDict(p) THEN Get(p, "mask_all", FALSE) ELSE TRUE
          norm == validate_and_normalize_policy(AsPyPolicy(IF IsDict(p) THEN p ELSE <<>>))
          selected == SeqToSet(norm.entities)
          use_defaults == Get(env, "DOCMASK_USE_DEFAULT_TEMPLATES", "false") \in {"1", "true", "yes"}
          with_pseudonymizer == use_defaults \/ norm.actions # <<>>
          \* lines 48-124: each page gets a pseudonymizer of its own
          pseudo(i) == IF mask_all THEN None
                       ELSE PagePseudonymizer(doc.pages[i], env, with_pseudonymizer)
          entity_page == [i \in 1..Len(doc.pages) |->
                             IF mask_all THEN [spans |-> <<>>, counters |-> <<>>]
                             ELSE EntityPage(doc.pages[i], selected, norm, pseudo(i), <<>>,
                                             lib.text_rejected)]
          pages(done) == [i \in 1..Len(doc.pages) |->
                             IF mask_all
                             THEN [j \in 1..Len(doc.pages[i]) |->
                                      MaskAllSpan(doc.pages[i][j], lib.text_rejected)]
                             ELSE done[i].spans]
          log(done) == [i \in 1..Len(doc.pages) |->
                           IF pseudo(i) = None THEN None
                           ELSE Some([config |-> pseudo(i)[1], before |-> <<>>,
                                      after |-> done[i].counters])]
          saving(done) == [result |-> [status |-> "success",
                                       characters_processed |-> TotalChars(doc.pages, ~mask_all)],
                           saved |-> [metadata |-> metadata, pages |-> pages(done)],
                           pseudo_log |-> log(done)]
      IN IF lib.save_raises THEN failed("ValueError")
         ELSE saving(entity_page)

(***************************************************************************)
(* PDF runs: one call of process_pdf_file on a file, a policy argument, an *)
(* environment and a behaviour of the PDF library.                         *)
(***************************************************************************)
\* tests/test_pdf_metadata.py:16
AliceMetadata == [author |-> "Alice", title |-> "Secret", producer |-> "writer"]
PdfSpans ==
    {[text |-> t, bbox |-> b] :
        t \in {<<>>, <<"a", "b", " ", "1">>, <<"a", "@", "b", ".", "c", "c">>},
        b \in BOOLEAN}
PdfPageLists ==
    {<<>>} \cup {<<<<s>>>> : s \in PdfSpans}
           \cup {<< <<[text |-> <<"Z", "7">>, bbox |-> TRUE], s>>, <<s>> >> : s \in PdfSpans}
PdfDocs == [metadata : {<<>>, AliceMetadata}, pages : PdfPageLists]
PdfFiles == {[doc |-> d] : d \in PdfDocs} \cup {[content |-> <<"a", "b">>], NotADict}
PdfLibs ==
    [fitz : BOOLEAN, open_raises : BOOLEAN, set_metadata_raises : BOOLEAN,
     text_rejected : BOOLEAN, save_raises : BOOLEAN]
PdfEnvirons ==
    {<<>>, [DOCMASK_USE_DEFAULT_TEMPLATES |-> "1"], [DOC_MASKING_ENV_KEY |-> "envA"],
     [DOC_MASKING_ENV_KEY |-> "envA", DOC_MASKING_DOC_KEY |-> "doc1"]}
\* policies with an action for email spans
T_pdf == <<"{", "h", "a", "s", "h", "1", "}", "_", "{", "i", "n", "d", "e", "x", "}">>
PdfActionPolicies ==
    {[entities |-> <<"email">>,
      actions |-> ("email" :> (("action" :> [str |-> A_pseudonymize])
                                 @@ ("template" :> [str |-> T_pdf])))],
     [entities |-> <<"email">>,
      actions |-> ("email" :> ("action" :> [str |-> A_remove]))]}
PdfPolicyArgs == PolicyArgs \cup PdfActionPolicies

PdfInit ==
    /\ input_file \in PdfFiles
    /\ policy_arg \in PdfPolicyArgs
    /\ environ \in PdfEnvirons
    /\ pdf_lib \in PdfLibs
    /\ result = NoResult
    /\ raising = "none"
    /\ saved = NotADict
    /\ pseudo_log = <<>>
    /\ CliIdle
    /\ EvalIdle
    /\ AggIdle
    /\ MaskIdle
    /\ PseudoIdle
    /\ PolicyIdle

\* result = process_pdf_file(input, output, policy_arg)
ProcessPdfFile ==
    /\ result = NoResult
    /\ \E r \in {process_pdf_file(input_file, policy_arg, environ, pdf_lib)} :
          /\ result' = r.result
          /\ saved' = r.saved
          /\ pseudo_log' = r.pseudo_log
    /\ UNCHANGED <<input_file, policy_arg, environ, raising, pdf_lib, cliVars, evalVars, aggVars, maskVars, pseudoVars, policyVars>>

PdfNext == ProcessPdfFile

SpecPdf == PdfInit /\ [][PdfNext]_vars

(***************************************************************************)
(* The command (processor.py main).  argv holds the arguments after the    *)
(* program name; input_file is the file at argv[1] (NotADict: none).       *)
(***************************************************************************)
\* the last index of the character in the path, or 0
LastIndexOf(path, ch) ==
    LET hits == {i \in 1..Len(path) : path[i] = ch}
    IN IF hits = {} THEN 0 ELSE CHOOSE i \in hits : \A j \in hits : j <= i

\* os.path.splitext(path)[1] taking the first dot of the last component
splitext_FirstDot(path) ==
    LET sep == LastIndexOf(path, "/")
        dots == {i \in (sep + 1)..Len(path) : path[i] = "."}
    IN IF dots = {} THEN <<>>
       ELSE SubSeq(path, CHOOSE i \in dots : \A j \in dots : i <= j, Len(path))

\* os.path.splitext(path)[1]: from the last dot of the last component, unless
\* only dots precede it there
splitext(path) ==
    LET sep == LastIndexOf(path, "/")
        dot == LastIndexOf(path, ".")
    IN IF dot > sep /\ \E k \in (sep + 1)..(dot - 1) : path[k] # "."
       THEN SubSeq(path, dot, Len(path))
       ELSE <<>>

\* main(): the lines written, the exit code and the processor called
main(args, file, env, lib, failing) ==
    IF Len(args) # 2
    THEN [stdout |-> <<[status |-> "error", error |-> "InvalidArguments"]>>,
          exit_code |-> <<1>>, processor |-> "none", saved |-> NotADict, pseudo_log |-> <<>>]
    ELSE
      LET ext == ToLower(splitext(args[1]))
          pol == load_entity_policy_from_env(env)
          exiting(r, called) ==
              [stdout |-> <<r.result>>,
               exit_code |-> IF r.result.status = "success" THEN <<0>> ELSE <<1>>,
               processor |-> called, saved |-> r.saved, pseudo_log |-> r.pseudo_log]
      IN IF ext = <<".", "p", "d", "f">>
         THEN exiting(process_pdf_file(file, pol, env, lib), "pdf")
         ELSE exiting([result |-> process_text_file(file, pol, env, failing),
                       saved |-> NotADict, pseudo_log |-> <<>>], "text")

InputPaths ==
    {<<"a", ".", "t", "x", "t">>, <<"a", ".", "p", "d", "f">>, <<"A", ".", "P", "d", "F">>,
     <<"a">>, <<".", "p", "d", "f">>, <<"d", ".", "p", "d", "f", "/", "a">>,
     <<"a", ".", "p", "d", "f", ".", "t", "x", "t">>, <<"a", ".", "b", ".", "p", "d", "f">>,
     <<"a", "p", "d", "f">>, <<"d", "/", ".", ".", "p", "d", "f">>}
OutputPath == <<"o", "u", "t">>
ArgLists ==
    {<<>>, <<OutputPath, OutputPath, OutputPath>>}
       \cup {<<i>> : i \in InputPaths} \cup {<<i, OutputPath>> : i \in InputPaths}
CliFiles ==
    {NotADict, [content |-> <<"a", "@", "b", ".", "c", "c">>],
     [doc |-> [metadata |-> AliceMetadata,
               pages |-> <<<<[text |-> <<"a", "@", "b", ".", "c", "c">>, bbox |-> TRUE]>>>>]]}
CliLibs == {l \in PdfLibs : ~l.text_rejected /\ ~l.set_metadata_raises}

CliInit ==
    /\ argv \in ArgLists
    /\ input_file \in (IF Len(argv) = 0 THEN {NotADict} ELSE CliFiles)
    /\ environ \in Environs
    /\ pdf_lib \in CliLibs
    /\ policy_arg = NotADict
    /\ result = NoResult
    /\ raising = "none"
    /\ saved = NotADict
    /\ pseudo_log = <<>>
    /\ stdout = <<>>
    /\ exit_code = <<>>
    /\ processor = "none"
    /\ EvalIdle
    /\ AggIdle
    /\ MaskIdle
    /\ PseudoIdle
    /\ PolicyIdle

\* one run of the command, to its exit
Main ==
    /\ exit_code = <<>>
    /\ \E failing \in {"none", "rules", "ner"} :
         \E m \in {main(argv, input_file, environ, pdf_lib, failing)} :
            /\ stdout' = m.stdout
            /\ exit_code' = m.exit_code
            /\ processor' = m.processor
            /\ saved' = m.saved
            /\ pseudo_log' = m.pseudo_log
            /\ raising' = failing
    /\ UNCHANGED <<argv, input_file, policy_arg, environ, result, pdf_lib, evalVars, aggVars, maskVars, pseudoVars, policyVars>>

CliNext == Main

SpecCli == CliInit /\ [][CliNext]_vars

(***************************************************************************)
(* Evaluation (evaluation.py).  precision, recall and f1 are kept as the   *)
(* fractions <<numerator, denominator>>.                                   *)
(***************************************************************************)
\* an overlap test that also counts spans that only touch
overlap_Touching(a_start, a_end, b_start, b_end) ==
    Max(0, Min(a_end, b_end) - Max(a_start, b_start) + 1)

\* _overlap
overlap(a_start, a_end, b_start, b_end) ==
    Max(0, Min(a_end, b_end) - Max(a_start, b_start))

RECURSIVE Candidates(_, _)
\* type_to_true.get(et, []): the truth spans of the type, in list order
Candidates(trues, et) ==
    IF trues = <<>> THEN <<>>
    ELSE (IF Head(trues).type = et THEN <<Head(trues)>> ELSE <<>>) \o Candidates(Tail(trues), et)

\* lines 34-41: the key of the first candidate that overlaps p and is not
\* matched yet, <<>> if there is none; idx counts from 0
FirstMatch(candidates, p, matched_true_ids) ==
    LET key(i) == <<p.type, i - 1, candidates[i].start, candidates[i].end>>
        hits == {i \in 1..Len(candidates) :
                    /\ overlap(p.start, p.end, candidates[i].start, candidates[i].end) > 0
                    /\ key(i) \notin matched_true_ids}
    IN IF hits = {} THEN <<>> ELSE key(CHOOSE i \in hits : \A j \in hits : i <= j)

RECURSIVE EvalWalk(_, _, _, _, _)
\* the loop over pred_entities (lines 28-43)
EvalWalk(trues, preds, matched_true_ids, tp, fp) ==
    IF preds = <<>> THEN [tp |-> tp, fp |-> fp, matched |-> matched_true_ids]
    ELSE LET p == Head(preds)
             m == FirstMatch(Candidates(trues, p.type), p, matched_true_ids)
         IN IF m # <<>>
            THEN EvalWalk(trues, Tail(preds), matched_true_ids \cup {m}, tp + 1, fp)
            ELSE EvalWalk(trues, Tail(preds), matched_true_ids, tp, fp + 1)

evaluate_entities(trues, preds) ==
    LET w == EvalWalk(trues, preds, {}, 0, 0)
        total_true == Len(trues)
        fn == total_true - Cardinality(w.matched)
    IN [true |-> total_true,
        pred |-> w.tp + w.fp,
        tp |-> w.tp,
        fp |-> w.fp,
        fn |-> fn,
        precision |-> IF w.tp + w.fp > 0 THEN <<w.tp, w.tp + w.fp>> ELSE <<0, 1>>,
        recall |-> IF w.tp + fn > 0 THEN <<w.tp, w.tp + fn>> ELSE <<0, 1>>,
        f1 |-> IF w.tp > 0 THEN <<2 * w.tp, 2 * w.tp + w.fp + fn>> ELSE <<0, 1>>]

(***************************************************************************)
(* Evaluation runs: the caller builds the two lists, then evaluates them.  *)
(***************************************************************************)
\* spans that overlap ([0,2) and [1,3)), touch ([0,2) and [2,4)), are empty,
\* or differ in type only
EvalSpans ==
    {MaskSpan("email", 0, 2), MaskSpan("email", 1, 3), MaskSpan("email", 2, 4),
     MaskSpan("email", 2, 2), MaskSpan("phone", 1, 3)}

EvalInit ==
    /\ true_entities = <<>>
    /\ pred_entities = <<>>
    /\ metrics = NotADict
    /\ input_file = NotADict
    /\ policy_arg = NotADict
    /\ environ = <<>>
    /\ result = NoResult
    /\ raising = "none"
    /\ PdfIdle
    /\ CliIdle
    /\ AggIdle
    /\ MaskIdle
    /\ PseudoIdle
    /\ PolicyIdle

AddTrue ==
    /\ metrics = NotADict
    /\ Len(true_entities) < MaxEvalSpans
    /\ \E t \in EvalSpans : true_entities' = Append(true_entities, t)
    /\ UNCHANGED <<pred_entities, metrics, input_file, policy_arg, environ, result, raising, pdfVars, cliVars, aggVars, maskVars, pseudoVars, policyVars>>

AddPred ==
    /\ metrics = NotADict
    /\ Len(pred_entities) < MaxEvalSpans
    /\ \E t \in EvalSpans : pred_entities' = Append(pred_entities, t)
    /\ UNCHANGED <<true_entities, metrics, input_file, policy_arg, environ, result, raising, pdfVars, cliVars, aggVars, maskVars, pseudoVars, policyVars>>

\* metrics = evaluate_entities(true_entities, pred_entities)
EvaluateEntities ==
    /\ metrics = NotADict
    /\ metrics' = evaluate_entities(true_entities, pred_entities)
    /\ UNCHANGED <<true_entities, pred_entities, input_file, policy_arg, environ, result, raising, pdfVars, cliVars, aggVars, maskVars, pseudoVars, policyVars>>

EvalNext == AddTrue \/ AddPred \/ EvaluateEntities

SpecEval == EvalInit /\ [][EvalNext]_vars

(***************************************************************************)
(* Claims about the aggregator, checked under SpecAgg.                     *)
(***************************************************************************)
Overlap(a, b) == a.start < b.end /\ b.start < a.end

\* C1: the output of merge_overlaps holds no two spans that share a type and
\* overlap (also when a span of another type lies between them in sort order).
C1_SameTypeDisjoint ==
    op \in {"merge", "remerge"} =>
        \A i, j \in 1..Len(entities) :
            (i # j /\ entities[i].type = entities[j].type)
                => ~Overlap(entities[i], entities[j])

\* C2: merge_overlaps is idempotent: applied to its own output it returns the
\* same list of spans in the same order.
C2_Idempotent ==
    op = "remerge" => entities = before

SetMax(S) == CHOOSE x \in S : \A y \in S : y <= x
SetMin(S) == CHOOSE x \in S : \A y \in S : x <= y

\* g assigns each span of the sorted input s the output span it went into:
\* a span joins the group of its predecessor iff it has the group's type and
\* starts no later than the largest end seen in the group so far; each output
\* span is the union of its group and carries the group's maximum score.
IsGrouping(g, s, out) ==
    LET n == Len(s)
        m == Len(out)
        group(j) == {k \in 1..n : g[k] = j}
        sofar(i) == {k \in 1..i : g[k] = g[i]}
    IN /\ g[1] = 1
       /\ g[n] = m
       /\ \A i \in 1..(n - 1) :
            /\ g[i + 1] \in {g[i], g[i] + 1}
            /\ g[i + 1] = g[i] <=>
                  /\ s[i + 1].type = s[i].type
                  /\ s[i + 1].start <= SetMax({s[k].end : k \in sofar(i)})
       /\ \A j \in 1..m :
            /\ group(j) # {}
            /\ \A k \in group(j) : s[k].type = out[j].type
            /\ out[j].start = SetMin({s[k].start : k \in group(j)})
            /\ out[j].end = SetMax({s[k].end : k \in group(j)})
            /\ out[j].score = SetMax({s[k].score : k \in group(j)})

\* C3: merge_overlaps merges spans that are consecutive in (start ascending,
\* end descending) order iff they share a type and next.start <= current.end;
\* a merged span is the union with the maximum score, every other span is
\* output unchanged; seed scenario 3 yields (email,5,12,0.9), (phone,20,30,0.7).
C3_MergeIsGroupedUnion ==
    op \in {"merge", "remerge"} =>
        /\ before = <<>> => entities = <<>>
        /\ before # <<>> =>
             LET s == StableSort(before, "start_negend")
             IN \E g \in [1..Len(s) -> 1..Len(entities)] : IsGrouping(g, s, entities)
        /\ before = Scenario3 =>
             entities = <<Span("email", 5, 12, 90), Span("phone", 20, 30, 70)>>

C3_Witness ==
    /\ op = "merge"
    /\ before = Scenario3
    /\ Len(entities) = 2

Kept(e, p) ==
    /\ e.type \in SeqToSet(Get(p, "entities", <<>>))
    /\ e.score >= Get(Get(p, "thresholds", <<>>), e.type, 0)

\* C4: filter_by_policy returns exactly the subsequence of the input, in input
\* order, of the spans whose type is in policy.entities and whose score is
\* >= thresholds[type] (0 when unset); no selected entities, empty output.
C4_FilterIsKeptSubsequence ==
    (op = "filter" /\ IsDict(policy)) =>
        LET K == {i \in 1..Len(before) : Kept(before[i], policy)}
        IN /\ Len(entities) = Cardinality(K)
           /\ \E f \in [1..Len(entities) -> K] :
                /\ \A a, b \in 1..Len(entities) : a < b => f[a] < f[b]
                /\ \A a \in 1..Len(entities) : entities[a] = before[f[a]]
           /\ Get(policy, "entities", <<>>) = <<>> => entities = <<>>

C4_Witness ==
    /\ op = "filter"
    /\ before = Scenario4
    /\ policy = Scenario4Policy
    /\ entities = <<Span("email", 6, 10, 90), Span("phone", 11, 15, 95)>>

(***************************************************************************)
(* Claims about the text rewriter, checked under SpecMask.                 *)
(***************************************************************************)
\* position i (0-based) lies inside some span of the list
Covered(i) == \E k \in 1..Len(spans) : spans[k].start <= i /\ i < spans[k].end

FirstStart == SetMin({spans[k].start : k \in 1..Len(spans)})
LastEnd == SetMax({spans[k].end : k \in 1..Len(spans)})

\* The output read against the spans in start order.  Span k is processed
\* from from[k], its start or the largest end before it, if that lies before
\* its end; off[k] is the length the output has gained over the input once
\* the first k spans are done.
Interleaved ==
    LET sorted == StableSort(spans, "start")
        n == Len(sorted)
        from(k) == SetMax({0, sorted[k].start} \cup {sorted[j].end : j \in 1..(k - 1)})
        processed(k) == from(k) < sorted[k].end
        rep(k) == Replacement(sorted[k], Slice(text, from(k), sorted[k].end),
                              sorted[k].end - from(k), "x", preserve_length, pseudonymize_fn)
        off[k \in 0..n] ==
            IF k = 0 THEN 0
            ELSE off[k - 1]
                   + (IF processed(k) THEN Len(rep(k)) - (sorted[k].end - from(k)) ELSE 0)
        done(i) == Cardinality({k \in 1..n : sorted[k].start <= i})
    IN /\ Len(masked) = Len(text) + off[n]
       /\ \A k \in 1..n : processed(k) =>
             SubSeq(masked, from(k) + off[k - 1] + 1, from(k) + off[k - 1] + Len(rep(k)))
                 = rep(k)
       /\ \A i \in 0..(Len(text) - 1) : ~Covered(i) =>
             masked[i + off[done(i)] + 1] = text[i + 1]

\* C5: mask_text_spans leaves everything outside the spans untouched: the
\* output is the input's unmodified runs interleaved, left to right, with one
\* replacement per processed span, so the text before the first span and after
\* the last span is output as it is; in the default length-preserving mode (no
\* hook) the output has the input's length, every position covered by no span
\* holds the input's character and every covered position holds the masking
\* character.
C5_MaskFrame ==
    mpc = "masked" =>
        /\ Interleaved
        /\ spans = <<>> => masked = text
        /\ spans # <<>> =>
             /\ Len(masked) >= FirstStart + (Len(text) - LastEnd)
             /\ SubSeq(masked, 1, FirstStart) = SubSeq(text, 1, FirstStart)
             /\ SubSeq(masked, Len(masked) - (Len(text) - LastEnd) + 1, Len(masked))
                    = SubSeq(text, LastEnd + 1, Len(text))
        /\ (pseudonymize_fn = "None" /\ preserve_length) =>
             /\ Len(masked) = Len(text)
             /\ \A i \in 0..(Len(text) - 1) :
                  masked[i + 1] = IF Covered(i) THEN "x" ELSE text[i + 1]

C5_Witness ==
    /\ mpc = "masked"
    /\ pseudonymize_fn = "None"
    /\ preserve_length
    /\ Len(spans) = 2
    /\ \E i, j \in 0..(Len(text) - 1) :
         /\ Covered(i) /\ text[i + 1] = "a" /\ masked[i + 1] = "x"
         /\ ~Covered(j) /\ masked[j + 1] = "a"

\* The output expected of a hook that raises for phone spans: the spans in
\* start order, each processed from its start or the largest end before it;
\* a phone span gives the fallback, any other span the hook's result.
ExpectedWithRaisingHook ==
    LET sorted == StableSort(spans, "start")
        n == Len(sorted)
        last(k) == SetMax({0} \cup {sorted[j].end : j \in 1..(k - 1)})
        from(k) == SetMax({last(k), sorted[k].start})
        fallback(k) == IF preserve_length
                       THEN [i \in 1..(sorted[k].end - from(k)) |-> "x"]
                       ELSE <<"[", "p", "h", "o", "n", "e", "]">>
        rep(k) == IF sorted[k].type = "phone" THEN fallback(k)
                  ELSE HookResult(pseudonymize_fn, sorted[k],
                                  SubSeq(text, from(k) + 1, sorted[k].end))
        pieces[k \in 0..n] ==
            IF k = 0 THEN <<>>
            ELSE IF from(k) < sorted[k].end
            THEN pieces[k - 1] \o SubSeq(text, last(k) + 1, from(k)) \o rep(k)
            ELSE pieces[k - 1]
    IN pieces[n] \o SubSeq(text, last(n + 1) + 1, Len(text))

\* C15: when the hook raises for a span, mask_text_spans returns, and that
\* span alone gets the fallback, a run of the masking character of the span's
\* (processed) length with preserve_length and [<type>] without; every other
\* span still gets the hook's result.
C15_HookFailureIsolated ==
    (mpc = "masked" /\ pseudonymize_fn = "raises_on_phone") =>
        masked = ExpectedWithRaisingHook

\* a phone span for which the hook raised, before an email span it served
C15_Witness ==
    /\ mpc = "masked" /\ pseudonymize_fn = "raises_on_phone"
    /\ preserve_length
    /\ Len(text) = 3
    /\ spans = <<MaskSpan("email", 2, 3), MaskSpan("phone", 0, 2)>>
    /\ masked = <<"x", "x", "E", "M">>

\* The output the documented order gives for two overlapping spans: the
\* winner is the span starting first, the longer one when both start at the
\* same offset; it is replaced in full, and the loser is processed from the
\* winner's end if anything of it remains.
ExpectedWinnerInFull(a, b) ==
    LET a_wins == a.start < b.start \/ (a.start = b.start /\ a.end >= b.end)
        w == IF a_wins THEN a ELSE b
        l == IF a_wins THEN b ELSE a
        rep(e, from) == Replacement(e, Slice(text, from, e.end), e.end - from, "x",
                                    preserve_length, pseudonymize_fn)
    IN Slice(text, 0, w.start)
         \o rep(w, w.start)
         \o (IF l.end > w.end THEN rep(l, w.end) ELSE <<>>)
         \o Slice(text, Max(w.end, l.end), Len(text))

\* two spans of different types that overlap
CrossTypeOverlap ==
    /\ Len(spans) = 2
    /\ spans[1].type # spans[2].type
    /\ spans[1].start < spans[2].end
    /\ spans[2].start < spans[1].end

\* C21: overlapping spans of different types are resolved in document order:
\* the span with the earliest start is replaced in full, of two spans starting
\* at the same offset the longer one is replaced in full, whatever their order
\* in the list; the other span is processed from the winner's end and skipped
\* when nothing of it remains.
C21_EarliestThenLongestWins ==
    (mpc = "masked" /\ CrossTypeOverlap) =>
        masked = ExpectedWinnerInFull(spans[1], spans[2])

(***************************************************************************)
(* Claims about the text pipeline, checked under SpecText.                 *)
(***************************************************************************)
\* the policy in force is p: given as the argument, or held by
\* DOCMASK_ENTITY_POLICY with no policy argument
RunsUnder(P(_)) ==
    \/ IsDict(policy_arg) /\ P(policy_arg)
    \/ /\ policy_arg = NotADict
       /\ "DOCMASK_ENTITY_POLICY" \in DOMAIN environ
       /\ IsDict(environ["DOCMASK_ENTITY_POLICY"])
       /\ P(environ["DOCMASK_ENTITY_POLICY"])

SelectsEmailOnly(p) == DOMAIN p = {"entities"} /\ p["entities"] = <<"email">>
HasMaskAll(p) == "mask_all" \in DOMAIN p /\ p["mask_all"] = TRUE

\* seed scenario 1: the text, the policy, the keys, default templates enabled
SeedEmailRun ==
    /\ result.status = "success"
    /\ input_file = [content |-> SeedText]
    /\ RunsUnder(SelectsEmailOnly)
    /\ environ["DOC_MASKING_ENV_KEY"] = "envk"
    /\ environ["DOC_MASKING_DOC_KEY"] = "dockey"
    /\ "DOCMASK_USE_DEFAULT_TEMPLATES" \in DOMAIN environ
    /\ environ["DOCMASK_USE_DEFAULT_TEMPLATES"] = "1"

\* C6: processing "Hello alice@example.com!\n" under the policy
\* {"entities": ["email"]}, env key "envk", doc key "dockey" and default
\* templates enabled gives an output without alice@example.com that contains
\* "@mask.local" and starts with "Hello ".
C6_SeedEmailPseudonymized ==
    SeedEmailRun =>
        /\ ~Contains(result.output, <<"a", "l", "i", "c", "e", "@", "e", "x", "a", "m", "p", "l", "e", ".", "c", "o", "m">>)
        /\ Contains(result.output, <<"@", "m", "a", "s", "k", ".", "l", "o", "c", "a", "l">>)
        /\ StartsWith(result.output, 1, <<"H", "e", "l", "l", "o", " ">>)

MaskAllRun ==
    /\ result # NoResult
    /\ IsDict(input_file)
    /\ RunsUnder(HasMaskAll)

\* C7: under a mask_all policy no detector is run and the output has the
\* input's length, with 'x' exactly where the input has a character of
\* [A-Za-z0-9] and the input's character elsewhere; "your name: abc" becomes
\* "xxxx xxxx: xxx".
C7_MaskAllReplacesAlnum ==
    MaskAllRun =>
        LET s == input_file.content
        IN /\ result.status = "success"
           /\ result.detectors_run = <<>>
           /\ Len(result.output) = Len(s)
           /\ \A i \in 1..Len(s) :
                result.output[i] = IF s[i] \in Lower \cup Upper \cup Digit THEN "x" ELSE s[i]
           /\ s = NameText => result.output = <<"x", "x", "x", "x", " ", "x", "x", "x", "x", ":", " ", "x", "x", "x">>

C7_Witness ==
    /\ MaskAllRun
    /\ input_file.content = NameText
    /\ result.output = <<"x", "x", "x", "x", " ", "x", "x", "x", "x", ":", " ", "x", "x", "x">>
    /\ result.detectors_run = <<>>

\* process_text_file was called on an existing file, without mask_all in
\* force, and exactly the detector d raised
DetectorRaised(d) ==
    /\ result # NoResult
    /\ IsDict(input_file)
    /\ ~RunsUnder(HasMaskAll)
    /\ raising = d

\* C13: when a single detector raises, the rules detector included,
\* process_text_file returns a success result (that detector counting as the
\* empty list, the spans of every other detector being kept).
C13_DetectorFailureIsolated ==
    \A d \in {"rules"} \cup Guarded :
        DetectorRaised(d) => result.status = "success"

(***************************************************************************)
(* Claims about policy validation and the replacement function, checked    *)
(* under SpecPolicy.                                                       *)
(***************************************************************************)
\* the template echoes the original value: it holds {orig} or {text}
EchoesOriginal(tmpl) == Contains(tmpl, L_orig) \/ Contains(tmpl, L_text)

\* the raw policy gives type et a (string) template holding {orig} or {text}
RawUnsafe(et) ==
    /\ IsPyDict(raw_policy)
    /\ "actions" \in DOMAIN raw_policy
    /\ IsPyDict(raw_policy["actions"])
    /\ et \in DOMAIN raw_policy["actions"]
    /\ IsPyDict(raw_policy["actions"][et])
    /\ "template" \in DOMAIN raw_policy["actions"][et]
    /\ IsStr(raw_policy["actions"][et]["template"])
    /\ EchoesOriginal(raw_policy["actions"][et]["template"].str)

\* the raw policy without the template field of type et
RawWithoutTemplate(et) ==
    [raw_policy EXCEPT !["actions"] =
        [@ EXCEPT ![et] = DictWithout(@, "template")]]

C9_UnsafeTemplateStripped ==
    ppc \in {"validated", "replaced"} =>
        /\ \A et \in DOMAIN norm_policy.actions :
             "template" \in DOMAIN norm_policy.actions[et]
                 => ~EchoesOriginal(norm_policy.actions[et]["template"])
        /\ \A et \in {"email", "phone"} : RawUnsafe(et) =>
             /\ et \in DOMAIN norm_policy.actions
             /\ norm_policy.actions[et]
                   = NormalizeEntry(DictWithout(raw_policy["actions"][et], "template"))
             /\ (/\ ppc = "replaced"
                 /\ lastcall.entity_type = et
                 /\ norm_policy.actions[et]["action"] = A_pseudonymize)
                  => lastcall.out =
                        pseudonymize(pz.config, lastcall.counters, lastcall.original, et,
                                     TypeChars(et), map_default_template(et), None, None,
                                     Get(norm_policy.actions[et], "keep_parts", <<>>),
                                     Date1).out

C9_Witness ==
    /\ ppc = "replaced"
    /\ lastcall.entity_type = "email"
    /\ RawUnsafe("email")
    /\ DOMAIN norm_policy.actions["email"] = {"action", "keep_parts"}
    /\ norm_policy.actions["email"]["action"] = A_pseudonymize
    /\ norm_policy.actions["email"]["keep_parts"] = [last |-> 1]
    /\ SubSeq(lastcall.out, 1, 6) = <<"E", "M", "A", "I", "L", "_">>
    /\ ~Contains(lastcall.out, lastcall.original)

\* the counter of the type, 0 when the type has none
CounterOf(counters, t) == IF t \in DOMAIN counters THEN counters[t] ELSE 0

\* the default templates as the policy engine documents them
DocumentedDefault(et) ==
    CASE et = "person_name" -> <<"N", "A", "M", "E", "_", "{", "h", "a", "s", "h", "8", "}">>
      [] et = "email" -> <<"E", "M", "A", "I", "L", "_", "{", "h", "a", "s", "h", "6", "}", "@", "m", "a", "s", "k", ".", "l", "o", "c", "a", "l">>
      [] et = "phone" -> <<"P", "H", "O", "N", "E", "_", "{", "h", "a", "s", "h", "6", "}", "_", "{", "o", "r", "i", "g", "_", "l", "a", "s", "t", ":", "4", "}">>
      [] et = "postal_code" -> <<"Z", "I", "P", "_", "{", "h", "a", "s", "h", "4", "}">>
      [] et = "address" -> <<"A", "D", "D", "R", "E", "S", "S", "_", "{", "h", "a", "s", "h", "6", "}">>
      [] et = "credentials" -> <<"C", "R", "E", "D", "E", "N", "T", "I", "A", "L", "S", "_", "{", "h", "a", "s", "h", "6", "}">>

\* the action configured for the type of the latest replacement, <<>> if none
ConfiguredAction ==
    LET actions == norm_policy.actions
        et == lastcall.entity_type
    IN IF et \in DOMAIN actions /\ "action" \in DOMAIN actions[et]
       THEN actions[et]["action"] ELSE <<>>

\* the configuration value of the type of the latest replacement, <<>> if none
Configured(key) ==
    LET actions == norm_policy.actions
        et == lastcall.entity_type
    IN IF et \in DOMAIN actions /\ key \in DOMAIN actions[et] THEN actions[et][key] ELSE <<>>

\* what pz.pseudonymize(original, entity_type=et, template=..., keep_parts=...)
\* returned, called before the replacement's counters changed
Pseudonym(template, keep_parts) ==
    pseudonymize(pz.config, lastcall.counters, lastcall.original, lastcall.entity_type,
                 TypeChars(lastcall.entity_type), template, None, None, keep_parts, Date1).out

\* C16: the replacement function dispatches on the action configured for the
\* type: remove gives the empty string; placeholder the configured template,
\* else [<type>]; pseudonymize the pseudonym of the configured template, else
\* of the type default; format the original's shape followed by its last N
\* characters when keep_parts.last = N; no action the pseudonym of the type
\* default.  The pseudonymizer is called, and the type's counter consumed,
\* in the last three cases only.
C16_DispatchOnAction ==
    ppc = "replaced" =>
        LET et == lastcall.entity_type
            o == lastcall.original
            a == ConfiguredAction
            tmpl == Configured("template")
            kp == Configured("keep_parts")
            kept == IF kp = <<>> THEN <<>>
                    ELSE SubSeq(o, Max(1, Len(o) - kp.last + 1), Len(o))
            consumed == /\ CounterOf(pz.counters, et) = CounterOf(lastcall.counters, et) + 1
                        /\ \A t \in KnownTypes \ {et} :
                              CounterOf(pz.counters, t) = CounterOf(lastcall.counters, t)
        IN CASE a = <<"r", "e", "m", "o", "v", "e">> ->
                  lastcall.out = <<>> /\ pz.counters = lastcall.counters
             [] a = <<"p", "l", "a", "c", "e", "h", "o", "l", "d", "e", "r">> ->
                  /\ lastcall.out = IF tmpl # <<>> THEN tmpl
                                    ELSE <<"[">> \o TypeChars(et) \o <<"]">>
                  /\ pz.counters = lastcall.counters
             [] a = <<"p", "s", "e", "u", "d", "o", "n", "y", "m", "i", "z", "e">> ->
                  /\ lastcall.out = Pseudonym(IF tmpl # <<>> THEN tmpl ELSE DocumentedDefault(et), kp)
                  /\ consumed
             [] a = <<"f", "o", "r", "m", "a", "t">> ->
                  /\ lastcall.out = token_shape(o) \o kept
                  /\ consumed
             [] a = <<>> ->
                  /\ lastcall.out = Pseudonym(DocumentedDefault(et), <<>>)
                  /\ consumed

\* a format action with keep_parts.last = 1 served a 3-character original
C16_Witness ==
    /\ ppc = "replaced"
    /\ ConfiguredAction = A_format
    /\ Configured("keep_parts") = [last |-> 1]
    /\ lastcall.original = <<"a", "b", "1">>
    /\ lastcall.out = <<"a", "a", "9", "1">>
    /\ pz.counters = (lastcall.entity_type :> 1)

\* a person_name without an action got the pseudonym of NAME_{hash8}
C16_WitnessDefault ==
    /\ ppc = "replaced"
    /\ lastcall.entity_type = "person_name"
    /\ ConfiguredAction = <<>>
    /\ Len(lastcall.out) = 13
    /\ SubSeq(lastcall.out, 1, 5) = <<"N", "A", "M", "E", "_">>

\* C23: the PDF dispatch agrees with the text dispatch: for the same
\* validated policy, pseudonymizer state, entity type and original both
\* yield the same replacement text; the PDF dispatch yields none exactly for
\* the action remove, where the text dispatch yields the empty string.
C23_PdfDispatchAgreesWithText ==
    ppc = "resolved" =>
        LET cfg == Get(norm_policy.actions, refcall.entity_type, <<>>)
            removes == "action" \in DOMAIN cfg /\ cfg["action"] = A_remove
        IN /\ refcall.out = None <=> removes
           /\ lastcall.out = IF refcall.out = None THEN <<>> ELSE refcall.out[1]

(***************************************************************************)
(* Claims about the pseudonymizer, checked under SpecPseudo.               *)
(***************************************************************************)
\* two calls with the same env_key, doc_key, entity type, template and
\* trimmed original value
SameKeyedInput(a, b) ==
    /\ a.called /\ b.called
    /\ a.env_key = b.env_key
    /\ a.doc_key = b.doc_key
    /\ a.entity_type = b.entity_type
    /\ a.template = b.template
    /\ a.trimmed = b.trimmed

\* two calls for the same original value, entity type and template whose
\* pseudonymizers differ in env_key or in doc_key
DifferentKeys(a, b) ==
    /\ a.called /\ b.called
    /\ a.entity_type = b.entity_type
    /\ a.template = b.template
    /\ a.trimmed = b.trimmed
    /\ a.env_key # b.env_key \/ a.doc_key # b.doc_key

\* the widths N of the {hashN} tokens of a template
HashWidths(t) ==
    {ToInt(SubSeq(t, b + Len(L_hash), RunEnd(t, b + Len(L_hash), Digit))) :
        b \in {c \in 1..Len(t) :
                 LET j == RunEnd(t, c + Len(L_hash), Digit)
                 IN /\ StartsWith(t, c, L_hash)
                    /\ j >= c + Len(L_hash)
                    /\ j + 1 <= Len(t)
                    /\ t[j + 1] = "}"}}

C10_Deterministic ==
    SameKeyedInput(refcall, lastcall) => refcall.out = lastcall.out

\* C10 as amended: two such calls (with the same algo and keep_parts) return
\* identical strings whenever they render the same index and the same date,
\* that is when the caller passes both or the template expands neither; the
\* instance, its counters, the clock and the untrimmed spelling do not matter.
C10_DeterministicGivenIndexAndDate ==
    (/\ SameKeyedInput(refcall, lastcall)
     /\ refcall.algo = lastcall.algo
     /\ refcall.keep_parts = lastcall.keep_parts
     /\ ~Contains(lastcall.template, L_index) \/ refcall.index = lastcall.index
     /\ ~Contains(lastcall.template, L_date) \/ refcall.date = lastcall.date)
        => refcall.out = lastcall.out

C10_Witness ==
    /\ SameKeyedInput(refcall, lastcall)
    /\ refcall.instance # lastcall.instance
    /\ lastcall.template = T_all
    /\ refcall.index = lastcall.index
    /\ refcall.date = lastcall.date
    /\ refcall.out = lastcall.out


\* C12: the counter of every entity type equals the number of pseudonymize
\* calls for that type made without an index since construction or the last
\* set_document_key (so set_document_key leaves every counter at 0); the n-th
\* such call renders {index} as n; a call with an index renders that index and
\* changes no counter; a call changes no counter of another type.
C12_CountersCountCalls ==
    /\ \A t \in CounterTypes : CounterOf(pz.counters, t) = CounterOf(auto_calls, t)
    /\ DOMAIN pz.counters \subseteq CounterTypes
    /\ (lastcall.called /\ lastcall.index = None) =>
          /\ lastcall.nth >= 1
          /\ lastcall.out = <<"N", DigitChar(lastcall.nth)>>
          /\ CounterOf(lastcall.after, lastcall.entity_type) = lastcall.nth
    /\ (lastcall.called /\ lastcall.index # None) =>
          /\ lastcall.out = <<"N", DigitChar(lastcall.index[1])>>
          /\ \A t \in CounterTypes : CounterOf(lastcall.after, t) = CounterOf(lastcall.before, t)
    /\ lastcall.called =>
          \A t \in CounterTypes \ {lastcall.entity_type} :
             CounterOf(lastcall.after, t) = CounterOf(lastcall.before, t)

\* the second counted call of a type renders 2 while the other type, counted
\* once, keeps its counter
C12_Witness ==
    /\ lastcall.called /\ lastcall.index = None
    /\ lastcall.entity_type = "email"
    /\ lastcall.nth = 2 /\ lastcall.out = <<"N", "2">>
    /\ CounterOf(lastcall.before, "phone") = 1
    /\ CounterOf(pz.counters, "phone") = 1

\* a call with the index 0 renders 0 and leaves a counter of 1 alone
C12_WitnessIndexGiven ==
    /\ lastcall.called /\ lastcall.index = Some(0)
    /\ lastcall.out = <<"N", "0">>
    /\ CounterOf(pz.counters, lastcall.entity_type) = 1


(***************************************************************************)
(* Claims about the command, checked under SpecCli.                        *)
(***************************************************************************)
\* the path ends in a dot and the letters p, d, f in either case, the dot
\* following a character other than a dot of the same path component
HasPdfExtension(path) ==
    /\ Len(path) >= 5
    /\ path[Len(path) - 3] = "."
    /\ path[Len(path) - 2] \in {"p", "P"}
    /\ path[Len(path) - 1] \in {"d", "D"}
    /\ path[Len(path)] \in {"f", "F"}
    /\ \E k \in 1..(Len(path) - 4) :
          /\ path[k] # "."
          /\ \A j \in k..(Len(path) - 4) : path[j] # "/"

\* C14: every run of the command writes exactly one result line and exits
\* with 0 iff that result's status is "success", with 1 otherwise; a wrong
\* argument count gives the error InvalidArguments, a missing input gives
\* FileNotFoundError, and the extension of the input path alone selects the
\* processor: .pdf in any case the PDF one, anything else the text one.
C14_OneResultLineAndExitCode ==
    exit_code # None =>
        /\ Len(stdout) = 1
        /\ exit_code \in {Some(0), Some(1)}
        /\ exit_code = Some(0) <=> stdout[1].status = "success"
        /\ Len(argv) # 2 => stdout[1].status = "error" /\ stdout[1].error = "InvalidArguments"
        /\ (Len(argv) = 2 /\ input_file = NotADict) =>
              stdout[1].status = "error" /\ stdout[1].error = "FileNotFoundError"
        /\ Len(argv) = 2 =>
              processor = IF HasPdfExtension(argv[1]) THEN "pdf" ELSE "text"

\* a PDF named with upper-case letters was processed by the PDF processor
\* and the run exited with 0
C14_Witness ==
    /\ exit_code = Some(0)
    /\ Len(argv) = 2 /\ argv[1] = <<"A", ".", "P", "d", "F">>
    /\ processor = "pdf"
    /\ stdout[1].status = "success"
    /\ saved # NotADict /\ saved.metadata = <<>>

\* the last min(n, length) characters
LastChars(s, n) == SubSeq(s, Len(s) - (IF n < Len(s) THEN n ELSE Len(s)) + 1, Len(s))

\* what the latest call returns for its template alone, without keep_parts
RenderedTemplate ==
    Render([env_key |-> lastcall.env_key, doc_key |-> lastcall.doc_key, algo |-> lastcall.algo],
           lastcall.trimmed, TypeChars(lastcall.entity_type), lastcall.template,
           lastcall.index, lastcall.date, <<>>)

\* C17: pseudonymize appends the last N characters of the trimmed original to
\* the rendered template iff keep_parts.last = N with N > 0 and the template
\* does not contain "{orig_last:"; a template with the token {orig_last:M}
\* gets exactly the last min(M, length) characters at the token, none for
\* M = 0, whatever keep_parts holds.
C17_KeepLast ==
    lastcall.called =>
        LET n == IF "last" \in DOMAIN lastcall.keep_parts THEN lastcall.keep_parts.last ELSE 0
            appends == n > 0 /\ ~Contains(lastcall.template, <<"{", "o", "r", "i", "g", "_", "l", "a", "s", "t", ":">>)
        IN /\ lastcall.out = IF appends THEN RenderedTemplate \o LastChars(lastcall.trimmed, n)
                                        ELSE RenderedTemplate
           /\ appends => Len(lastcall.out) > Len(RenderedTemplate)
           /\ \A m \in KeepWidths :
                 lastcall.template = <<"<">> \o OrigLastToken(m) \o <<">">> =>
                     lastcall.out = <<"<">> \o LastChars(lastcall.trimmed, m) \o <<">">>

\* keep_parts.last = 5 on the 2-character "a1" under a template without the
\* token: both characters are appended
C17_Witness ==
    /\ lastcall.called
    /\ lastcall.template = T_hash
    /\ lastcall.keep_parts = [last |-> 5]
    /\ lastcall.trimmed = <<"a", "1">>
    /\ Len(lastcall.out) = 6
    /\ SubSeq(lastcall.out, 5, 6) = <<"a", "1">>

\* {orig_last:1} with keep_parts.last = 5: one character, at the token
C17_WitnessToken ==
    /\ lastcall.called
    /\ lastcall.template = <<"<">> \o OrigLastToken(1) \o <<">">>
    /\ lastcall.keep_parts = [last |-> 5]
    /\ lastcall.out = <<"<", "1", ">">>


\* One left-to-right pass over the template: where a token {index}, {shape},
\* {hashN}, {date:FMT} or {orig_last:N} starts, its expansion is output and
\* the scan goes on after the token; every other character is output as it is.
RECURSIVE SinglePass(_, _, _, _, _, _, _)
SinglePass(s, i, config, normalized, type_chars, index, date) ==
    LET h == RunEnd(s, i + Len(L_hash), Digit)
        d == IndexOf(s, i + Len(L_date), "}")
        o == RunEnd(s, i + Len(L_orig_last), Digit)
        n == ToInt(SubSeq(s, i + Len(L_orig_last), o))
        go(j) == SinglePass(s, j, config, normalized, type_chars, index, date)
    IN IF i > Len(s) THEN <<>>
       ELSE IF StartsWith(s, i, L_index)
       THEN IntToChars(index) \o go(i + Len(L_index))
       ELSE IF StartsWith(s, i, L_shape)
       THEN token_shape(normalized) \o go(i + Len(L_shape))
       ELSE IF StartsWith(s, i, L_hash) /\ h >= i + Len(L_hash) /\ StartsWith(s, h + 1, <<"}">>)
       THEN digest_prefix(config, DigestMessage(type_chars, normalized),
                          ToInt(SubSeq(s, i + Len(L_hash), h))) \o go(h + 2)
       ELSE IF StartsWith(s, i, L_date) /\ d > i + Len(L_date)
       THEN Strftime(SubSeq(s, i + Len(L_date), d - 1), 1, date) \o go(d + 1)
       ELSE IF StartsWith(s, i, L_orig_last) /\ o >= i + Len(L_orig_last) /\ StartsWith(s, o + 1, <<"}">>)
       THEN (IF n > 0 THEN LastN(normalized, n) ELSE <<>>) \o go(o + 2)
       ELSE <<s[i]>> \o go(i + 1)

\* C22: the tokens of a template are expanded in one pass: the result of a
\* call is the template with each token replaced where it stands, text that
\* an expansion produces or completes is never expanded again, and whatever
\* is not one of the five tokens appears literally.
C22_SinglePassExpansion ==
    lastcall.called =>
        lastcall.out =
            SinglePass(lastcall.template, 1,
                       [env_key |-> lastcall.env_key, doc_key |-> lastcall.doc_key,
                        algo |-> lastcall.algo],
                       lastcall.trimmed, TypeChars(lastcall.entity_type),
                       lastcall.index, lastcall.date)

(***************************************************************************)
(* Claims about the evaluation, checked under SpecEval.                    *)
(***************************************************************************)
\* the two spans have the same type and share a position
SameTypeOverlap(a, b) ==
    /\ a.type = b.type
    /\ \E i \in 0..4 : a.start <= i /\ i < a.end /\ b.start <= i /\ i < b.end

\* taken[k]: the truth spans (by position in the list) matched by the first k
\* predictions, a prediction taking the first truth span it overlaps that is
\* not taken yet
TakenBy ==
    LET free(k, T) == {j \in 1..Len(true_entities) :
                          j \notin T /\ SameTypeOverlap(pred_entities[k], true_entities[j])}
        taken[k \in 0..Len(pred_entities)] ==
            IF k = 0 THEN {}
            ELSE IF free(k, taken[k - 1]) = {} THEN taken[k - 1]
            ELSE taken[k - 1] \cup {SetMin(free(k, taken[k - 1]))}
    IN taken

\* prediction k is a true positive: it overlaps a truth span of its type
\* that no earlier prediction has matched
TruePositive(k) ==
    \E j \in 1..Len(true_entities) :
        j \notin TakenBy[k - 1] /\ SameTypeOverlap(pred_entities[k], true_entities[j])

C19_MetadataClearedBeforeSave ==
    result.status = "success" =>
        /\ saved # NotADict
        /\ \A k \in {"author", "title", "producer"} :
              k \notin DOMAIN saved.metadata \/ saved.metadata[k] = ""


\* the run masked by entity: a policy was given and it does not set mask_all
EntityMode == IsDict(policy_arg) /\ ~Get(policy_arg, "mask_all", FALSE)

\* span j of page i was given to mask_pdf_spans: it has a text and a bbox and
\* matches the selected email pattern
PdfItem(i, j) ==
    LET span == input_file.doc.pages[i][j]
    IN /\ span.text # <<>> /\ span.bbox
       /\ "entities" \in DOMAIN policy_arg
       /\ "email" \in SeqToSet(policy_arg["entities"])
       /\ FindEmails(span.text, 1) # <<>>

\* the item of span j of page i carries a masked_text: the masked characters
\* without a pseudonymizer, the pseudonym under the action pseudonymize
HasMaskedText(i, j) ==
    \/ pseudo_log[i] = None
    \/ /\ "actions" \in DOMAIN policy_arg
       /\ "email" \in DOMAIN policy_arg["actions"]
       /\ policy_arg["actions"]["email"]["action"] = [str |-> A_pseudonymize]

\* C24: in entity-based PDF masking, when the library rejects a replacement
\* text in the redaction call, every item with a masked_text still ends with
\* its replacement text on the page, drawn over the blank redaction of its
\* rectangle.
C24_ReplacementTextDrawn ==
    (result.status = "success" /\ EntityMode /\ pdf_lib.text_rejected) =>
        \A i \in 1..Len(saved.pages) : \A j \in 1..Len(saved.pages[i]) :
            (PdfItem(i, j) /\ HasMaskedText(i, j)) =>
                /\ saved.pages[i][j].via = "textbox"
                /\ saved.pages[i][j].text # <<>>
                /\ pseudo_log[i] = None =>
                      saved.pages[i][j].text = mask_text_value(input_file.doc.pages[i][j].text)

\* C25: the key derived by derive_document_key is the pseudonymizer's
\* doc_key only when DOC_MASKING_DOC_KEY is not set; when it is set, its value
\* is the doc_key of the pseudonymizer of every page.
C25_ExternalDocKeyKept ==
    result.status = "success" =>
        \A i \in 1..Len(pseudo_log) : pseudo_log[i] # None =>
            pseudo_log[i][1].config.doc_key =
                IF "DOC_MASKING_DOC_KEY" \in DOMAIN environ
                THEN environ["DOC_MASKING_DOC_KEY"]
                ELSE derive_document_key(input_file.doc.pages[i])

\* C26: one pseudonymizer with one document key serves all pages of a
\* document: from a page to the next the config is the same and the counters
\* go on from where the page before left them, so the same email gets the
\* same pseudonym hash on every page.
C26_OnePseudonymizerPerDocument ==
    result.status = "success" =>
        \A i \in 1..(Len(pseudo_log) - 1) : pseudo_log[i] # None =>
            /\ pseudo_log[i + 1] # None
            /\ pseudo_log[i + 1][1].config = pseudo_log[i][1].config
            /\ pseudo_log[i + 1][1].before = pseudo_log[i][1].after
            /\ \A j \in 1..Len(saved.pages[i]), k \in 1..Len(saved.pages[i + 1]) :
                  (/\ input_file.doc.pages[i][j] = input_file.doc.pages[i + 1][k]
                   /\ saved.pages[i][j].via = "redact"
                   /\ saved.pages[i + 1][k].via = "redact")
                      => saved.pages[i][j].text[1] = saved.pages[i + 1][k].text[1]

(***************************************************************************)
(* Claims about the address detector, checked under SpecAddress.           *)
(***************************************************************************)
\* the lines of the runs that are street-like: a number first and a street
\* suffix, or a suffix and a unit keyword; and the line with an address label
StreetLikeLines == {Line_street, Line_unit, Line_padded}
LabelledLines == {Line_label}

\* the lines of the text that qualify, stripped, in order
RECURSIVE QualifyingLines(_)
QualifyingLines(lines) ==
    IF lines = <<>> THEN <<>>
    ELSE (IF \E l \in StreetLikeLines \cup LabelledLines : Strip(Head(lines)) = Strip(l)
          THEN <<Strip(Head(lines))>> ELSE <<>>) \o QualifyingLines(Tail(lines))

\* C27: detect_addresses emits a span for a line iff the line is street-like
\* or carries an address label, and the score of the span of a line followed
\* by a line with a city/state/postal label is strictly higher than the score
\* the same line gets as the only line of a text.
C27_AddressSpansAndContextCue ==
    (op = "detected" /\ policy.entities = <<"address">>) =>
        /\ [i \in 1..Len(entities) |-> entities[i].text] = QualifyingLines(SplitLines(text))
        /\ \A l \in StreetLikeLines \cup LabelledLines :
              text = l \o <<"\n">> \o Line_city =>
                  entities[1].score > detect_addresses(l, <<"address">>)[1].score

(***************************************************************************)
(* Claims about the policy argument, checked under SpecText.               *)
(***************************************************************************)
\* the environment without DOCMASK_ENTITY_POLICY
WithoutEnvPolicy(env) == [k \in DOMAIN env \ {"DOCMASK_ENTITY_POLICY"} |-> env[k]]

\* C30: a policy passed to process_text_file governs the run whatever
\* DOCMASK_ENTITY_POLICY holds: the result is the result of the same call
\* with the variable unset, and under the empty policy {} the output text is
\* the input text.
C30_PolicyArgumentGoverns ==
    (result # NoResult /\ IsDict(policy_arg)) =>
        /\ result = process_text_file(input_file, policy_arg, WithoutEnvPolicy(environ), raising)
        /\ (policy_arg = <<>> /\ result.status = "success") =>
               result.output = input_file.content

(***************************************************************************)
(* Claims about the pipeline, checked under SpecPipeline.                  *)
(***************************************************************************)
\* C28: every span merge_overlaps returns has the verbatim slice
\* text[start:end] as its text field, the spans given to it having theirs.
C28_TextIsVerbatimSlice ==
    op \in {"merge", "remerge"} =>
        \A k \in 1..Len(entities) :
            entities[k].text = Slice(text, entities[k].start, entities[k].end)

\* position i (0-based) was masked by the pipeline
Masked(i) == masked[i + 1] = "x"

\* the threshold of the run for a type
ThresholdOf(t) == Get(Get(policy, "thresholds", <<>>), t, 0)
Selected(t) == t \in SeqToSet(policy.entities)

\* the detector-emitted spans d and e are of one type and linked by a chain
\* of detector-emitted spans of that type, each touching or overlapping the
\* next (a chain of a list of n spans has at most n links)
Linked(d, e) ==
    LET D == {x \in SeqToSet(before) : x.type = d.type}
        touch(a, b) == a.start <= b.end /\ b.start <= a.end
        reach[n \in 0..Len(before)] ==
            IF n = 0 THEN {d}
            ELSE reach[n - 1] \cup {b \in D : \E a \in reach[n - 1] : touch(a, b)}
    IN e \in reach[Len(before)]

C20_ValidateIsTotal ==
    ppc # "raw" =>
        /\ ppc # "raised"
        /\ IsPyDict(norm_policy)
        /\ {"mask_all", "entities", "thresholds", "actions"} \subseteq DOMAIN norm_policy
        /\ \A i \in 1..Len(norm_policy.entities) :
              /\ IsPyDict(raw_policy)
              /\ "entities" \in DOMAIN raw_policy
              /\ IsList(raw_policy["entities"])
              /\ norm_policy.entities[i] = Intern(PyStr(raw_policy["entities"].list[i]))
        /\ \A k \in DOMAIN norm_policy.thresholds : norm_policy.thresholds[k] \in Int
        /\ \A et \in DOMAIN norm_policy.actions :
              LET entry == norm_policy.actions[et]
              IN /\ entry["action"] \in ALLOWED_ACTIONS
                 /\ "template" \in DOMAIN entry
                       => entry["action"] \in {A_pseudonymize, A_placeholder, A_format}
                 /\ "keep_parts" \in DOMAIN entry => entry["keep_parts"].last >= 0
====
